---- MODULE Spec2Model ----
(***************************************************************************)
(* Model of package trace of k8s.io/utils, the revision with nested        *)
(* traces that carry a parent pointer and their own threshold              *)
(* (src/trace/README.md, lines 68-288).  The older revision in             *)
(* src/trace/trace.go has no parent pointer and no per-trace threshold;    *)
(* its New, Step, Nest, Log, TotalTime and traceStep.writeStep are the     *)
(* same code.                                                              *)
(*                                                                         *)
(* A trace is identified by its index in `traces` (its name); 0 is the nil *)
(* *Trace.  Time is a discrete monotonic clock `now`; every operation      *)
(* reads the clock once.  Field lists and the text layout of the log line  *)
(* are left out: a log line is the sequence of the entries written to the  *)
(* buffer, each entry naming the trace or step it is about and the         *)
(* duration printed for it.                                                *)
(*                                                                         *)
(* Spec is the package as a state machine: traces are created, nested,     *)
(* given steps and logged while time passes.  CalcSpec applies             *)
(* calculateStepThreshold to every trace of a bounded family of trees.     *)
(* LogSpec logs every trace of a bounded family whose children were added  *)
(* at given clock readings, with the code of either revision.              *)
(*                                                                         *)
(* The other packages have a specification each, over variables of their   *)
(* own; the variables of the packages a specification is not about stay    *)
(* at their initial values.                                                *)
(*   InterruptSpec  interrupt.Handler: one Run, its goroutine, signals     *)
(*   KeyMutexSpec   keymutex.NewHashed: goroutines locking and unlocking   *)
(*   RingSpec       buffer.RingGrowing used by one goroutine               *)
(*   ChainSpec      unstructured.Chainable: chains of operations           *)
(***************************************************************************)
EXTENDS Integers, Sequences, FiniteSets, TLC

\* ---- bounds of the model ----
\* Spec: traces, steps and nested traces over all traces, clock, thresholds passed
\* to LogIfLong, Log and LogIfLong calls
MaxTraces == 2
MaxItems == 2
MaxTime == 3
MaxThreshold == 3
MaxCalls == 2
\* CalcSpec: children of the trace, thresholds of the trace and its nested traces
MaxChildren == 3
MaxCalcThreshold == 12
\* InterruptSpec: notify functions passed to New or Chain, termination signals sent
MaxNotify == 2
MaxSignals == 2
\* KeyMutexSpec: locks passed to NewHashed, goroutines using the KeyMutex
MaxLocks == 2
MaxProcs == 2
\* RingSpec: initial size of the ring, items written
MaxInitialSize == 3
MaxWrites == 10
\* ChainSpec: operations in one chain
MaxChain == 4
\* InsertSpec: InsertAt calls, length of the array
MaxInserts == 3
MaxLen == 3
\* ReadSpec: the attempts passed to ConsistentRead
MaxAttempts == 2
\* RingRaceSpec: WriteOne calls, ReadOne calls of each goroutine
MaxRaceWrites == 3
MaxReads == 2
\* MountSpec: Mount and Unmount calls on the FakeMounter
MaxMountOps == 3
\* time.Duration is an int64; the model counts durations in a word of DurationBits bits
DurationBits == 7

\* make(chan os.Signal, 1): the capacity of the channel Run registers
chanCap == 1

\* make(chan bool, 1): the capacity of each channel of a hashedKeyMutex
lockCap == 1

\* if size < 512: the size below which a file is read with a single Read
smallFile == 512

\* threshold *time.Duration: the nil pointer
NoThreshold == -1

VARIABLES
    now,       \* the clock read by time.Now() / time.Since()
    verbose,   \* klog.V(4).Enabled()
    traces,    \* the allocated Trace objects, by id
    out,       \* the lines the last call handed to klog.Info, in order
    records,   \* per trace: how often it has been written to the log so far
    panicked,  \* a nil pointer dereference has ended the program
    fin,       \* per trace: how often, and when first, Log/LogIfLong was called on it
    lastCall,  \* the operation that was executed last, its arguments and result
    \* package interrupt
    handlers,    \* the Handler objects, by id: notify, final and the state of once
    threads,     \* the goroutine that called Run and the one Run started
    ch,          \* the channel Run registered with signal.Notify
    registered,  \* signal.Notify(ch, ...) is in effect
    sent,        \* how many termination signals the process has been sent
    exited,      \* os.Exit has ended the process
    events,      \* the calls of and returns from notify and final functions so far
    \* package keymutex
    channels,    \* hashedKeyMutex.channels: how many values each channel holds
    procs,       \* the goroutines using the KeyMutex: the call each is in, its result
    held,        \* per goroutine: the ids it has locked and not unlocked since
    misused,     \* UnlockKey has been called by a goroutine that did not hold the id
    \* package buffer
    ring,        \* the RingGrowing: data, n, beg, readable
    written,     \* the items passed to WriteOne so far, in order
    taken,       \* the items ReadOne has returned so far, in order
    ringRet,     \* the last operation on the ring and what it returned
    \* package unstructured
    heap,          \* the maps and arrays of the document, by address
    chain,         \* the Chainable the last operation of the chain returned
    chainRet,      \* the last operation of the chain, what Data() returned, the length
    firstFailure,  \* the first failed operation: its error, the document at that time
    \* package io
    file,          \* what the file holds now, or that it is missing
    reading,       \* the ConsistentRead call: where it is, its locals, what each read gave
    \* package mount/testing
    mountPoints,   \* FakeMounter.MountPoints
    mountLog,      \* FakeMounter.Log
    mountRet       \* the last operation on the FakeMounter, and the mount points before it

traceVars == <<now, verbose, traces, out, records, panicked, fin, lastCall>>

interruptVars == <<handlers, threads, ch, registered, sent, exited, events>>

keymutexVars == <<channels, procs, held, misused>>

ringVars == <<ring, written, taken, ringRet>>

chainVars == <<heap, chain, chainRet, firstFailure>>

ioVars == <<file, reading>>

mountVars == <<mountPoints, mountLog, mountRet>>

vars == <<traceVars, interruptVars, keymutexVars, ringVars, chainVars, ioVars, mountVars>>

\* no trace has been created
NoTraces ==
    /\ now = 0
    /\ verbose = FALSE
    /\ traces = <<>>
    /\ out = <<>>
    /\ records = <<>>
    /\ panicked = FALSE
    /\ fin = <<>>
    /\ lastCall = [op |-> "", t |-> 0, threshold |-> 0, elapsed |-> 0, n |-> 0, ret |-> 0]

\* no Handler has been created
NoHandlers ==
    /\ handlers = <<>>
    /\ threads = <<>>
    /\ ch = <<>>
    /\ registered = FALSE
    /\ sent = 0
    /\ exited = FALSE
    /\ events = <<>>

\* no KeyMutex has been created
NoKeyMutex ==
    /\ channels = <<>>
    /\ procs = <<>>
    /\ held = <<>>
    /\ misused = FALSE

\* no RingGrowing has been created
NoRing ==
    /\ ring = <<>>
    /\ written = <<>>
    /\ taken = <<>>
    /\ ringRet = <<>>

\* no Chainable has been created
NoChain ==
    /\ heap = <<>>
    /\ chain = <<>>
    /\ chainRet = <<>>
    /\ firstFailure = <<>>

\* no ConsistentRead call has been made
NoFile ==
    /\ file = <<>>
    /\ reading = <<>>

\* no FakeMounter has been created
NoMounter ==
    /\ mountPoints = <<>>
    /\ mountLog = <<>>
    /\ mountRet = <<>>

\* the packages other than trace are not in use
OnlyTrace == NoHandlers /\ NoKeyMutex /\ NoRing /\ NoChain /\ NoFile /\ NoMounter

\* the packages other than interrupt are not in use
OnlyInterrupt == NoTraces /\ NoKeyMutex /\ NoRing /\ NoChain /\ NoFile /\ NoMounter

\* the packages other than keymutex are not in use
OnlyKeyMutex == NoTraces /\ NoHandlers /\ NoRing /\ NoChain /\ NoFile /\ NoMounter

\* the packages other than buffer are not in use
OnlyBuffer == NoTraces /\ NoHandlers /\ NoKeyMutex /\ NoChain /\ NoFile /\ NoMounter

\* the packages other than unstructured are not in use
OnlyUnstructured == NoTraces /\ NoHandlers /\ NoKeyMutex /\ NoRing /\ NoFile /\ NoMounter

\* what an operation of package trace leaves alone
outsideTrace == <<interruptVars, keymutexVars, ringVars, chainVars, ioVars, mountVars>>

\* what an operation of package interrupt leaves alone
outsideInterrupt == <<traceVars, keymutexVars, ringVars, chainVars, ioVars, mountVars>>

\* what an operation of package keymutex leaves alone
outsideKeyMutex == <<traceVars, interruptVars, ringVars, chainVars, ioVars, mountVars>>

\* what an operation of package buffer leaves alone
outsideBuffer == <<traceVars, interruptVars, keymutexVars, chainVars, ioVars, mountVars>>

\* what an operation of package unstructured leaves alone
outsideUnstructured == <<traceVars, interruptVars, keymutexVars, ringVars, ioVars, mountVars>>

\* the packages other than io are not in use
OnlyIo == NoTraces /\ NoHandlers /\ NoKeyMutex /\ NoRing /\ NoChain /\ NoMounter

\* the packages other than mount/testing are not in use
OnlyMount == NoTraces /\ NoHandlers /\ NoKeyMutex /\ NoRing /\ NoChain /\ NoFile

\* what an operation of package io leaves alone
outsideIo == <<traceVars, interruptVars, keymutexVars, ringVars, chainVars, mountVars>>

\* what an operation of package mount/testing leaves alone
outsideMount == <<traceVars, interruptVars, keymutexVars, ringVars, chainVars, ioVars>>

TraceIds == 1..Len(traces)

\* ---- values ----

\* traceStep{stepTime, msg}; the message is the step's position in its trace
StepItem(time, msg) == [kind |-> "step", stepTime |-> time, msg |-> msg, trace |-> 0]

\* a *Trace stored in stepsTraces
TraceItem(id) == [kind |-> "trace", stepTime |-> 0, msg |-> 0, trace |-> id]

\* &Trace{name, startTime: time.Now(), fields}
NewTrace(start, parent) ==
    [startTime |-> start, threshold |-> NoThreshold, stepsTraces |-> <<>>,
     parentTrace |-> parent]

\* one piece of text written to the buffer
Entry(kind, trace, msg, dur) == [kind |-> kind, trace |-> trace, msg |-> msg, dur |-> dur]

\* the record of an executed call
Call(op, t, threshold, elapsed, n, ret) ==
    [op |-> op, t |-> t, threshold |-> threshold, elapsed |-> elapsed, n |-> n, ret |-> ret]

\* no call to report: the program has just started, or time has passed, or a
\* trace or step has been added since
NoCall == Call("", 0, 0, 0, 0, 0)

\* Go's integer division truncates toward zero
GoDiv(a, b) ==
    IF a >= 0 THEN a \div b ELSE -((-a) \div b)

\* ---- pure functions ----

\* func (t *Trace) TotalTime(): time.Since(t.startTime)
TotalTimeOf(ts, clock, t) == clock - ts[t].startTime

\* s.(*Trace) succeeded and nestedTrace.threshold != nil
IsNestedWithThreshold(ts, s) ==
    s.kind = "trace" /\ ts[s.trace].threshold # NoThreshold

\* the largest and the smallest time.Duration
maxDuration == 2 ^ (DurationBits - 1) - 1

minDuration == -(2 ^ (DurationBits - 1))

\* the result of an addition or subtraction of two time.Duration values: it wraps
\* around at the ends of the range
wrapDuration(x) ==
    ((x - minDuration) % (2 ^ DurationBits)) + minDuration

RECURSIVE calcLoop(_, _, _, _, _)
\* the loop of calculateStepThreshold over t.stepsTraces[i..]
calcLoop(ts, t, i, traceThreshold, lenTrace) ==
    IF i > Len(ts[t].stepsTraces)
    THEN [traceThreshold |-> traceThreshold, lenTrace |-> lenTrace]
    ELSE LET s == ts[t].stepsTraces[i] IN
         IF IsNestedWithThreshold(ts, s)
         THEN calcLoop(ts, t, i + 1,
                       wrapDuration(traceThreshold - ts[s.trace].threshold), lenTrace - 1)
         ELSE calcLoop(ts, t, i + 1, traceThreshold, lenTrace)

\* faulty variant: when the threshold is reset to a quarter, the divisor is not reset
calculateStepThreshold_keepsDivisor(ts, t) ==
    LET r == calcLoop(ts, t, 1, ts[t].threshold, Len(ts[t].stepsTraces) + 1)
        limitThreshold == GoDiv(ts[t].threshold, 4)
    IN  IF r.traceThreshold < limitThreshold
        THEN GoDiv(limitThreshold, r.lenTrace)
        ELSE GoDiv(r.traceThreshold, r.lenTrace)

\* func calculateStepThreshold(t *Trace) time.Duration
calculateStepThreshold(ts, t) ==
    LET r == calcLoop(ts, t, 1, ts[t].threshold, Len(ts[t].stepsTraces) + 1)
        limitThreshold == GoDiv(ts[t].threshold, 4)
    IN  IF r.traceThreshold < limitThreshold
        THEN GoDiv(limitThreshold, Len(ts[t].stepsTraces) + 1)
        ELSE GoDiv(r.traceThreshold, r.lenTrace)

\* faulty variant: a step whose duration equals the threshold is written too
stepQualifies_atLeast(stepThreshold, stepDuration, verb) ==
    stepThreshold = 0 \/ stepDuration >= stepThreshold \/ verb

\* faulty variant: a step threshold of 0 does not ask for every step
stepQualifies_noZero(stepThreshold, stepDuration, verb) ==
    stepDuration > stepThreshold \/ verb

\* stepThreshold == 0 || stepDuration > stepThreshold || klog.V(4).Enabled()
stepQualifies(stepThreshold, stepDuration, verb) ==
    stepThreshold = 0 \/ stepDuration > stepThreshold \/ verb

\* faulty variant: the returned time is the one passed in, so every step is
\* measured from the start of the trace
traceStep_writeStep_keepsLast(b, s, parentTrace, stepThreshold, lastStepTime, verb) ==
    LET stepDuration == s.stepTime - lastStepTime IN
    [b |-> IF stepQualifies(stepThreshold, stepDuration, verb)
           THEN Append(b, Entry("step", parentTrace, s.msg, stepDuration))
           ELSE b,
     time |-> lastStepTime]

\* func (s traceStep) writeStep: the buffer afterwards and the returned time
traceStep_writeStep(b, s, parentTrace, stepThreshold, lastStepTime, verb) ==
    LET stepDuration == s.stepTime - lastStepTime IN
    [b |-> IF stepQualifies(stepThreshold, stepDuration, verb)
           THEN Append(b, Entry("step", parentTrace, s.msg, stepDuration))
           ELSE b,
     time |-> s.stepTime]

RECURSIVE writeTrace(_, _, _, _, _, _)
RECURSIVE writeItems(_, _, _, _, _, _, _, _)

\* func (t *Trace) writeStep: the buffer afterwards and the returned time, which is
\* lastStepTime as it was passed
Trace_writeStep(ts, clock, verb, b, t, stepThreshold, lastStepTime) ==
    LET ownThreshold == IF ts[t].threshold # NoThreshold
                        THEN calculateStepThreshold(ts, t)
                        ELSE stepThreshold
        opened == Append(b, Entry("[", t, 0, TotalTimeOf(ts, clock, t)))
        inner == writeTrace(ts, clock, verb, opened, t, ownThreshold)
    IN  [b |-> Append(inner.b, Entry("]", t, 0, 0)), time |-> lastStepTime]

\* the loop of writeTrace over t.stepsTraces[i..]
writeItems(ts, clock, verb, b, t, i, stepThreshold, lastStepTime) ==
    IF i > Len(ts[t].stepsTraces)
    THEN [b |-> b, time |-> lastStepTime]
    ELSE LET s == ts[t].stepsTraces[i]
             r == IF s.kind = "step"
                  THEN traceStep_writeStep(b, s, t, stepThreshold, lastStepTime, verb)
                  ELSE Trace_writeStep(ts, clock, verb, b, s.trace, stepThreshold,
                                       lastStepTime)
         IN  writeItems(ts, clock, verb, r.b, t, i + 1, stepThreshold, r.time)

\* func writeTrace(b, t, formatter, stepThreshold) time.Time
writeTrace(ts, clock, verb, b, t, stepThreshold) ==
    writeItems(ts, clock, verb, b, t, 1, stepThreshold, ts[t].startTime)

\* func (t *Trace) logWithStepThreshold: the line handed to klog.Info
logWithStepThreshold(ts, clock, verb, t, stepThreshold) ==
    LET endTime == clock
        totalTime == endTime - ts[t].startTime
        head == <<Entry("Trace", t, 0, totalTime)>>
        w == writeTrace(ts, clock, verb, head, t, stepThreshold)
        stepDuration == endTime - w.time
        buffer == IF stepThreshold = 0 \/ stepDuration > stepThreshold \/ verb
                  THEN Append(w.b, Entry("END", t, 0, stepDuration))
                  ELSE w.b
    IN  [trace |-> t, stepThreshold |-> stepThreshold, buffer |-> buffer]

\* faulty variant: a trace that took exactly its threshold is not long enough
isLong_strict(ts, clock, t, threshold) ==
    clock - ts[t].startTime > threshold

\* time.Since(t.startTime) >= threshold
isLong(ts, clock, t, threshold) ==
    clock - ts[t].startTime >= threshold

RECURSIVE logNested(_, _, _, _, _)
\* the else branch of LogIfLong: the lines for the nested traces of t that have a
\* threshold and have been running for at least that long, in child order
logNested(ts, clock, verb, t, i) ==
    IF i > Len(ts[t].stepsTraces)
    THEN <<>>
    ELSE LET s == ts[t].stepsTraces[i]
             rest == logNested(ts, clock, verb, t, i + 1)
         IN  IF IsNestedWithThreshold(ts, s)
                /\ isLong(ts, clock, s.trace, ts[s.trace].threshold)
             THEN <<logWithStepThreshold(ts, clock, verb, s.trace,
                                         calculateStepThreshold(ts, s.trace))>> \o rest
             ELSE rest

RECURSIVE ItemsAdded(_)
\* the number of steps and nested traces added so far, over all traces
ItemsAdded(ts) ==
    IF ts = <<>> THEN 0 ELSE Len(Head(ts).stepsTraces) + ItemsAdded(Tail(ts))

RECURSIVE CallsMade(_)
\* the number of Log and LogIfLong calls made so far
CallsMade(f) ==
    IF f = <<>> THEN 0 ELSE Head(f).count + CallsMade(Tail(f))

RECURSIVE Written(_, _)
\* how many of the entries of the lines are the head or the block of trace t
Written(lines, t) ==
    IF lines = <<>>
    THEN 0
    ELSE LET IsOfTrace(e) == e.kind \in {"Trace", "["} /\ e.trace = t
         IN  Len(SelectSeq(Head(lines).buffer, IsOfTrace)) + Written(Tail(lines), t)

\* klog.Info(buffer.String()) for each of the lines
Logged(rs, lines) ==
    [t \in DOMAIN rs |-> rs[t] + Written(lines, t)]

\* the bookkeeping of a Log/LogIfLong call on t at time clock
Finalized(f, ts, clock, t) ==
    [f EXCEPT ![t] =
        [count |-> @.count + 1,
         first |-> IF @.count = 0 THEN clock ELSE @.first,
         early |-> IF @.count = 0
                   THEN ts[t].parentTrace # 0 /\ f[ts[t].parentTrace].count > 0
                   ELSE @.early]]

\* ---- the state machine ----

Init ==
    /\ now = 0
    /\ verbose \in BOOLEAN
    /\ traces = <<>>
    /\ out = <<>>
    /\ records = <<>>
    /\ panicked = FALSE
    /\ fin = <<>>
    /\ lastCall = NoCall
    /\ OnlyTrace

\* time passes
Tick ==
    /\ ~panicked
    /\ now < MaxTime
    /\ now' = now + 1
    /\ lastCall' = NoCall
    /\ out' = <<>>
    /\ UNCHANGED <<verbose, traces, records, panicked, fin>>
    /\ UNCHANGED outsideTrace

\* func New(name, fields...) *Trace
New ==
    /\ ~panicked
    /\ Len(traces) < MaxTraces
    /\ traces' = Append(traces, NewTrace(now, 0))
    /\ fin' = Append(fin, [count |-> 0, first |-> 0, early |-> FALSE])
    /\ records' = Append(records, 0)
    /\ lastCall' = NoCall
    /\ out' = <<>>
    /\ UNCHANGED <<now, verbose, panicked>>
    /\ UNCHANGED outsideTrace

\* func (t *Trace) Step(msg, fields...)
Step(t) ==
    /\ ~panicked
    /\ ItemsAdded(traces) < MaxItems
    /\ traces' = [traces EXCEPT ![t].stepsTraces =
                      Append(@, StepItem(now, Len(@) + 1))]
    /\ lastCall' = NoCall
    /\ out' = <<>>
    /\ UNCHANGED <<now, verbose, records, panicked, fin>>
    /\ UNCHANGED outsideTrace

\* func (t *Trace) Nest(msg, fields...) *Trace, on a non-nil receiver
Nest(t) ==
    /\ ~panicked
    /\ Len(traces) < MaxTraces
    /\ ItemsAdded(traces) < MaxItems
    /\ LET id == Len(traces) + 1
           created == Append(traces, NewTrace(now, t))
       IN  /\ traces' = [created EXCEPT ![t].stepsTraces = Append(@, TraceItem(id))]
           /\ lastCall' = Call("Nest", t, 0, 0, 0, id)
    /\ fin' = Append(fin, [count |-> 0, first |-> 0, early |-> FALSE])
    /\ records' = Append(records, 0)
    /\ out' = <<>>
    /\ UNCHANGED <<now, verbose, panicked>>
    /\ UNCHANGED outsideTrace

\* func (t *Trace) Nest(msg, fields...) *Trace, on the nil receiver: New succeeds,
\* newTrace.parentTrace = t succeeds, and t.stepsTraces dereferences nil
NestNil ==
    /\ ~panicked
    /\ panicked' = TRUE
    /\ lastCall' = Call("Nest", 0, 0, 0, 0, 0)
    /\ out' = <<>>
    /\ UNCHANGED <<now, verbose, traces, records, fin>>
    /\ UNCHANGED outsideTrace

\* func (t *Trace) Log()
Log(t) ==
    /\ ~panicked
    /\ CallsMade(fin) < MaxCalls
    /\ out' = <<logWithStepThreshold(traces, now, verbose, t, 0)>>
    /\ records' = Logged(records, out')
    /\ fin' = Finalized(fin, traces, now, t)
    /\ lastCall' = Call("Log", t, 0, now - traces[t].startTime, 1, 0)
    /\ UNCHANGED <<now, verbose, traces, panicked>>
    /\ UNCHANGED outsideTrace

\* func (t *Trace) LogIfLong(threshold time.Duration)
LogIfLong(t, threshold) ==
    /\ ~panicked
    /\ CallsMade(fin) < MaxCalls
    /\ LET ts == [traces EXCEPT ![t].threshold = threshold]
           lines == IF isLong(ts, now, t, threshold) \/ ts[t].parentTrace = 0
                    THEN <<logWithStepThreshold(ts, now, verbose, t,
                                                calculateStepThreshold(ts, t))>>
                    ELSE logNested(ts, now, verbose, t, 1)
       IN  /\ traces' = ts
           /\ out' = lines
           /\ records' = Logged(records, lines)
           /\ lastCall' = Call("LogIfLong", t, threshold, now - traces[t].startTime,
                               Len(lines), 0)
    /\ fin' = Finalized(fin, traces, now, t)
    /\ UNCHANGED <<now, verbose, panicked>>
    /\ UNCHANGED outsideTrace

\* func (t *Trace) TotalTime() time.Duration
TotalTime(t) ==
    /\ ~panicked
    /\ lastCall' = Call("TotalTime", t, 0, 0, 0, TotalTimeOf(traces, now, t))
    /\ out' = <<>>
    /\ UNCHANGED <<now, verbose, traces, records, panicked, fin>>
    /\ UNCHANGED outsideTrace

Next ==
    \/ Tick
    \/ New
    \/ NestNil
    \/ \E t \in TraceIds : Step(t)
    \/ \E t \in TraceIds : Nest(t)
    \/ \E t \in TraceIds : Log(t)
    \/ \E t \in TraceIds : \E threshold \in 0..MaxThreshold : LogIfLong(t, threshold)
    \/ \E t \in TraceIds : TotalTime(t)

Spec == Init /\ [][Next]_vars

\* ---- calculateStepThreshold on its own ----

\* a child of the trace under test: a step, a nested trace without a threshold,
\* or a nested trace with the threshold given
ChildKinds ==
    {[nested |-> FALSE, threshold |-> NoThreshold]}
    \cup {[nested |-> TRUE, threshold |-> th] : th \in {NoThreshold} \cup (0..MaxCalcThreshold)}

\* how many of the first i children are nested traces
NestedBefore(children, i) ==
    Cardinality({j \in 1..i : children[j].nested})

\* the trace 1 with the threshold and the children given, and its nested traces
TreeOf(threshold, children) ==
    LET items == [i \in 1..Len(children) |->
                     IF children[i].nested
                     THEN TraceItem(1 + NestedBefore(children, i))
                     ELSE StepItem(0, i)]
        root == [NewTrace(0, 0) EXCEPT !.threshold = threshold, !.stepsTraces = items]
        nested == SelectSeq(children, LAMBDA c : c.nested)
    IN  <<root>> \o [k \in 1..Len(nested) |->
                        [NewTrace(0, 1) EXCEPT !.threshold = nested[k].threshold]]

CalcInit ==
    /\ now = 0
    /\ verbose = FALSE
    /\ \E threshold \in 0..MaxCalcThreshold :
       \E n \in 0..MaxChildren :
       \E children \in [1..n -> ChildKinds] :
           traces = TreeOf(threshold, children)
    /\ out = <<>>
    /\ records = [t \in 1..Len(traces) |-> 0]
    /\ panicked = FALSE
    /\ fin = [t \in 1..Len(traces) |-> [count |-> 0, first |-> 0, early |-> FALSE]]
    /\ lastCall = NoCall
    /\ OnlyTrace

\* stepThreshold := calculateStepThreshold(t)
Calculate(t) ==
    /\ traces[t].threshold # NoThreshold
    /\ lastCall' = Call("calculateStepThreshold", t, traces[t].threshold, 0, 0,
                        calculateStepThreshold(traces, t))
    /\ UNCHANGED <<now, verbose, traces, out, records, panicked, fin>>
    /\ UNCHANGED outsideTrace

CalcNext == \E t \in TraceIds : Calculate(t)

CalcSpec == CalcInit /\ [][CalcNext]_vars

\* thresholds over the whole range of time.Duration: none, zero, small, an eighth,
\* a quarter and a half of the range, and the largest
WideThresholds ==
    {0, 1, 2 ^ (DurationBits - 4), 2 ^ (DurationBits - 3), 2 ^ (DurationBits - 2),
     maxDuration}

WideChildKinds ==
    {[nested |-> FALSE, threshold |-> NoThreshold]}
    \cup {[nested |-> TRUE, threshold |-> th] : th \in {NoThreshold} \cup WideThresholds}

\* a trace with a threshold and children, the thresholds taken from the whole range
CalcWideInit ==
    /\ now = 0
    /\ verbose = FALSE
    /\ \E threshold \in WideThresholds :
       \E n \in 0..MaxChildren :
       \E children \in [1..n -> WideChildKinds] :
           traces = TreeOf(threshold, children)
    /\ out = <<>>
    /\ records = [t \in 1..Len(traces) |-> 0]
    /\ panicked = FALSE
    /\ fin = [t \in 1..Len(traces) |-> [count |-> 0, first |-> 0, early |-> FALSE]]
    /\ lastCall = NoCall
    /\ OnlyTrace

CalcWideSpec == CalcWideInit /\ [][CalcNext]_vars

\* ---- the revision that keeps steps and nested traces apart (src/trace/trace.go) ----

\* t.steps of that revision
steps(ts, t) == SelectSeq(ts[t].stepsTraces, LAMBDA s : s.kind = "step")

\* t.nestedTrace of that revision
nestedTrace(ts, t) == SelectSeq(ts[t].stepsTraces, LAMBDA s : s.kind = "trace")

\* func (s traceStep) time() and func (t *Trace) time()
timeOf(ts, s) == IF s.kind = "step" THEN s.stepTime ELSE ts[s.trace].startTime

\* x put into the sorted arr: behind the elements that are before it and, when
\* keepTies, behind the elements of the same time
placeByTime(ts, arr, x, keepTies) ==
    LET k == Cardinality({i \in 1..Len(arr) :
                             \/ timeOf(ts, arr[i]) < timeOf(ts, x)
                             \/ keepTies /\ timeOf(ts, arr[i]) = timeOf(ts, x)})
    IN  SubSeq(arr, 1, k) \o <<x>> \o SubSeq(arr, k + 1, Len(arr))

RECURSIVE sortSlice(_, _, _, _, _)
\* sort.Slice(arr, less by time) from arr[i] on.  sort.Slice is not stable: elements
\* of equal time come out in the order they had (keepTies) or reversed
sortSlice(ts, arr, i, sorted, keepTies) ==
    IF i > Len(arr)
    THEN sorted
    ELSE sortSlice(ts, arr, i + 1, placeByTime(ts, sorted, arr[i], keepTies), keepTies)

\* func (t *Trace) sortStepTrace() []stepTrace
sortStepTrace(ts, t, keepTies) ==
    sortSlice(ts, steps(ts, t) \o nestedTrace(ts, t), 1, <<>>, keepTies)

RECURSIVE writeTrace_sorted(_, _, _, _, _, _, _)
RECURSIVE writeSorted(_, _, _, _, _, _, _, _, _)

\* func (t *Trace) writeStep of that revision: it passes stepThreshold on and returns
\* the blank time, on which writeTrace keeps its lastStepTime
Trace_writeStep_sorted(ts, clock, verb, keepTies, b, t, stepThreshold, lastStepTime) ==
    LET opened == Append(b, Entry("[", t, 0, TotalTimeOf(ts, clock, t)))
        inner == writeTrace_sorted(ts, clock, verb, keepTies, opened, t, stepThreshold)
    IN  [b |-> Append(inner.b, Entry("]", t, 0, 0)), time |-> lastStepTime]

\* the loop of that revision's writeTrace over stepAndTraces[i..]
writeSorted(ts, clock, verb, keepTies, b, t, i, stepThreshold, lastStepTime) ==
    LET stepAndTraces == sortStepTrace(ts, t, keepTies) IN
    IF i > Len(stepAndTraces)
    THEN [b |-> b, time |-> lastStepTime]
    ELSE LET stepOrTrace == stepAndTraces[i]
             r == IF stepOrTrace.kind = "step"
                  THEN traceStep_writeStep(b, stepOrTrace, t, stepThreshold,
                                           lastStepTime, verb)
                  ELSE Trace_writeStep_sorted(ts, clock, verb, keepTies, b,
                                              stepOrTrace.trace, stepThreshold,
                                              lastStepTime)
         IN  writeSorted(ts, clock, verb, keepTies, r.b, t, i + 1, stepThreshold, r.time)

\* func writeTrace(b, t, formatter, stepThreshold) time.Time of that revision
writeTrace_sorted(ts, clock, verb, keepTies, b, t, stepThreshold) ==
    writeSorted(ts, clock, verb, keepTies, b, t, 1, stepThreshold, ts[t].startTime)

\* func (t *Trace) logWithStepThreshold of that revision
logWithStepThreshold_sorted(ts, clock, verb, keepTies, t, stepThreshold) ==
    LET endTime == clock
        totalTime == endTime - ts[t].startTime
        head == <<Entry("Trace", t, 0, totalTime)>>
        w == writeTrace_sorted(ts, clock, verb, keepTies, head, t, stepThreshold)
        stepDuration == endTime - w.time
        buffer == IF stepThreshold = 0 \/ stepDuration > stepThreshold \/ verb
                  THEN Append(w.b, Entry("END", t, 0, stepDuration))
                  ELSE w.b
    IN  [trace |-> t, stepThreshold |-> stepThreshold, buffer |-> buffer]

\* func (t *Trace) Log() of that revision
LogSorted(t, keepTies) ==
    /\ ~panicked
    /\ CallsMade(fin) < MaxCalls
    /\ out' = <<logWithStepThreshold_sorted(traces, now, verbose, keepTies, t, 0)>>
    /\ records' = Logged(records, out')
    /\ fin' = Finalized(fin, traces, now, t)
    /\ lastCall' = Call("LogSorted", t, 0, now - traces[t].startTime, 1, 0)
    /\ UNCHANGED <<now, verbose, traces, panicked>>
    /\ UNCHANGED outsideTrace

\* ---- logging a trace whose children were added at given times ----

\* a child of the trace under test: a step taken, or a trace nested, at the time given
TimedChildren == [nested : BOOLEAN, time : 0..MaxTime]

\* the clock never runs backwards: the children were added at or after the start,
\* each at or after the one before
InClockOrder(start, children) ==
    \A i \in 1..Len(children) :
        children[i].time >= (IF i = 1 THEN start ELSE children[i - 1].time)

\* the trace 1 started at start with the children given, and its nested traces
TimedTreeOf(start, children) ==
    LET items == [i \in 1..Len(children) |->
                     IF children[i].nested
                     THEN TraceItem(1 + NestedBefore(children, i))
                     ELSE StepItem(children[i].time, i)]
        root == [NewTrace(start, 0) EXCEPT !.stepsTraces = items]
        nested == SelectSeq(children, LAMBDA c : c.nested)
    IN  <<root>> \o [k \in 1..Len(nested) |-> NewTrace(nested[k].time, 1)]

LogInit ==
    /\ verbose \in BOOLEAN
    /\ \E start \in 0..MaxTime :
       \E n \in 0..MaxChildren :
       \E children \in [1..n -> TimedChildren] :
           /\ InClockOrder(start, children)
           /\ traces = TimedTreeOf(start, children)
           /\ now \in (IF n = 0 THEN start ELSE children[n].time)..MaxTime
    /\ out = <<>>
    /\ records = [t \in 1..Len(traces) |-> 0]
    /\ panicked = FALSE
    /\ fin = [t \in 1..Len(traces) |-> [count |-> 0, first |-> 0, early |-> FALSE]]
    /\ lastCall = NoCall
    /\ OnlyTrace

LogNext ==
    \/ Log(1)
    \/ \E threshold \in 0..MaxThreshold : LogIfLong(1, threshold)
    \/ \E keepTies \in BOOLEAN : LogSorted(1, keepTies)

LogSpec == LogInit /\ [][LogNext]_vars

\* ---- package interrupt (src/interrupt/interrupt.go) ----

\* a function in Handler.notify: a function of the caller
NotifyFn(id) == [kind |-> "fn", arg |-> id]

\* a function in Handler.notify: the method value handler.close of the handler p
CloseOf(p) == [kind |-> "close", arg |-> p]

\* Handler.final == nil
FinalNil == [kind |-> "nil", arg |-> 0]

\* Handler.final: a function of the caller, which exits the process or returns
FinalFn(exits) == [kind |-> IF exits THEN "exit" ELSE "return", arg |-> 0]

\* Handler.final: the method value handler.signal of the handler p
SignalOf(p) == [kind |-> "signal", arg |-> p]

\* func New(final func(os.Signal), notify ...func()) *Handler
interrupt_New(final, notify) == [final |-> final, notify |-> notify, once |-> "new"]

\* func Chain(handler *Handler, notify ...func()) *Handler; p = 0 is the nil handler
Chain(p, notify) ==
    IF p = 0
    THEN interrupt_New(FinalNil, notify)
    ELSE interrupt_New(SignalOf(p), Append(notify, CloseOf(p)))

\* n functions of the caller, numbered from first + 1
Fns(first, n) == [k \in 1..n |-> NotifyFn(first + k)]

\* faulty variant: every call of Do runs the function
once_Do_runs_always(o) == TRUE

\* sync.Once.Do: this call is the one that runs the function
once_Do_runs(o) == o = "new"

\* sync.Once.Do: the function has run and returned, Do returns at once; while it is
\* running in another call, Do waits
once_Do_skips(o) == o = "done"

\* faulty variant: the loop runs through h.notify from its end
notifyAt_backwards(hs, h, i) == hs[h].notify[Len(hs[h].notify) + 1 - i]

\* for _, fn := range h.notify: the function of the i-th round
notifyAt(hs, h, i) == hs[h].notify[i]

\* a call of h.close or h.signal in progress: waiting in once.Do ("Do"), between two
\* notify functions ("loop"), inside the i-th one ("in") or inside final ("infinal")
Frame(h, op) == [h |-> h, op |-> op, i |-> 0, at |-> "Do"]

\* a call of, or a return from, a notify or final function of handler h in thread th
Event(ev, h, fn, th) == [ev |-> ev, h |-> h, fn |-> fn, th |-> th]

ThreadIds == {"main", "sig"}

\* the innermost call in progress in thread th
Top(th) == threads[th].stack[Len(threads[th].stack)]

\* a call is in progress in thread th and the process is alive
InCall(th) == ~exited /\ threads[th].stack # <<>>

SetTop(th, f) == [threads EXCEPT ![th].stack[Len(threads[th].stack)] = f]

Pop(th) == [threads EXCEPT ![th].stack = SubSeq(@, 1, Len(@) - 1)]

\* the handler Run was called on
RunHandler == Len(handlers)

\* h.Run(fn) has made the channel, registered it and started the goroutine; fn runs
InterruptInit ==
    /\ \E final \in {FinalNil, FinalFn(TRUE), FinalFn(FALSE)} :
       \E n \in 0..MaxNotify :
       \E chained \in BOOLEAN :
       \E m \in 0..MaxNotify :
           /\ ~chained => m = 0
           /\ handlers = IF chained
                         THEN <<interrupt_New(final, Fns(0, n)), Chain(1, Fns(n, m))>>
                         ELSE <<interrupt_New(final, Fns(0, n))>>
    /\ threads = [main |-> [pc |-> "fn", stack |-> <<>>],
                  sig |-> [pc |-> "recv", stack |-> <<>>]]
    /\ ch = [buf |-> 0, closed |-> FALSE]
    /\ registered = TRUE
    /\ sent = 0
    /\ exited = FALSE
    /\ events = <<>>
    /\ OnlyInterrupt

\* the operating system sends the process a termination signal: package signal
\* sends it to ch without blocking, and drops it when the buffer is full
Deliver ==
    /\ ~exited
    /\ registered
    /\ sent < MaxSignals
    /\ sent' = sent + 1
    /\ ch' = [ch EXCEPT !.buf = IF @ < chanCap THEN @ + 1 ELSE @]
    /\ UNCHANGED <<handlers, threads, registered, exited, events>>
    /\ UNCHANGED outsideInterrupt

\* return fn(): the critical section returns and the deferred h.close() is called
FnReturns ==
    /\ ~exited
    /\ threads["main"].pc = "fn"
    /\ threads' = [threads EXCEPT !["main"] =
                      [pc |-> "close", stack |-> <<Frame(RunHandler, "close")>>]]
    /\ UNCHANGED <<handlers, ch, registered, sent, exited, events>>
    /\ UNCHANGED outsideInterrupt

\* h.close() has returned; the deferred function calls signal.Stop(ch)
Stop ==
    /\ ~exited
    /\ threads["main"].pc = "close"
    /\ threads["main"].stack = <<>>
    /\ registered' = FALSE
    /\ threads' = [threads EXCEPT !["main"].pc = "stop"]
    /\ UNCHANGED <<handlers, ch, sent, exited, events>>
    /\ UNCHANGED outsideInterrupt

\* close(ch), and Run returns
CloseChannel ==
    /\ ~exited
    /\ threads["main"].pc = "stop"
    /\ ch' = [ch EXCEPT !.closed = TRUE]
    /\ threads' = [threads EXCEPT !["main"].pc = "returned"]
    /\ UNCHANGED <<handlers, registered, sent, exited, events>>
    /\ UNCHANGED outsideInterrupt

\* sig, ok := <-ch with a signal in the buffer: h.signal(sig) is called
Receive ==
    /\ ~exited
    /\ threads["sig"].pc = "recv"
    /\ ch.buf > 0
    /\ ch' = [ch EXCEPT !.buf = @ - 1]
    /\ threads' = [threads EXCEPT !["sig"] =
                      [pc |-> "signal", stack |-> <<Frame(RunHandler, "signal")>>]]
    /\ UNCHANGED <<handlers, registered, sent, exited, events>>
    /\ UNCHANGED outsideInterrupt

\* sig, ok := <-ch on the closed, empty channel: !ok, the goroutine returns
ReceiveClosed ==
    /\ ~exited
    /\ threads["sig"].pc = "recv"
    /\ ch.buf = 0
    /\ ch.closed
    /\ threads' = [threads EXCEPT !["sig"].pc = "returned"]
    /\ UNCHANGED <<handlers, ch, registered, sent, exited, events>>
    /\ UNCHANGED outsideInterrupt

\* h.signal(sig) has returned, the goroutine ends
SignalReturns ==
    /\ ~exited
    /\ threads["sig"].pc = "signal"
    /\ threads["sig"].stack = <<>>
    /\ threads' = [threads EXCEPT !["sig"].pc = "returned"]
    /\ UNCHANGED <<handlers, ch, registered, sent, exited, events>>
    /\ UNCHANGED outsideInterrupt

\* h.once.Do(func() {...}) in the call that runs the function
OnceBegin(th) ==
    /\ InCall(th)
    /\ Top(th).at = "Do"
    /\ once_Do_runs(handlers[Top(th).h].once)
    /\ handlers' = [handlers EXCEPT ![Top(th).h].once = "running"]
    /\ threads' = SetTop(th, [Top(th) EXCEPT !.at = "loop", !.i = 1])
    /\ UNCHANGED <<ch, registered, sent, exited, events>>
    /\ UNCHANGED outsideInterrupt

\* h.once.Do(func() {...}) after the function has run: close or signal returns
OnceSkip(th) ==
    /\ InCall(th)
    /\ Top(th).at = "Do"
    /\ once_Do_skips(handlers[Top(th).h].once)
    /\ threads' = Pop(th)
    /\ UNCHANGED <<handlers, ch, registered, sent, exited, events>>
    /\ UNCHANGED outsideInterrupt

\* fn() in the loop over h.notify: the call; calling handler.close enters that method
NotifyCall(th) ==
    /\ InCall(th)
    /\ Top(th).at = "loop"
    /\ Top(th).i <= Len(handlers[Top(th).h].notify)
    /\ LET fn == notifyAt(handlers, Top(th).h, Top(th).i)
           inside == SetTop(th, [Top(th) EXCEPT !.at = "in"])
       IN  /\ events' = Append(events, Event("call", Top(th).h, fn, th))
           /\ threads' = IF fn.kind = "fn"
                         THEN inside
                         ELSE [inside EXCEPT ![th].stack = Append(@, Frame(fn.arg, "close"))]
    /\ UNCHANGED <<handlers, ch, registered, sent, exited>>
    /\ UNCHANGED outsideInterrupt

\* fn() in the loop over h.notify: the return
NotifyReturn(th) ==
    /\ InCall(th)
    /\ Top(th).at = "in"
    /\ events' = Append(events, Event("return", Top(th).h,
                                      notifyAt(handlers, Top(th).h, Top(th).i), th))
    /\ threads' = SetTop(th, [Top(th) EXCEPT !.at = "loop", !.i = @ + 1])
    /\ UNCHANGED <<handlers, ch, registered, sent, exited>>
    /\ UNCHANGED outsideInterrupt

\* close: the loop is over, the function passed to once.Do returns, close returns
CloseEnd(th) ==
    /\ InCall(th)
    /\ Top(th).at = "loop"
    /\ Top(th).op = "close"
    /\ Top(th).i > Len(handlers[Top(th).h].notify)
    /\ handlers' = [handlers EXCEPT ![Top(th).h].once = "done"]
    /\ threads' = Pop(th)
    /\ UNCHANGED <<ch, registered, sent, exited, events>>
    /\ UNCHANGED outsideInterrupt

\* signal: the loop is over; if h.final == nil { os.Exit(1) }; h.final(s)
FinalCall(th) ==
    /\ InCall(th)
    /\ Top(th).at = "loop"
    /\ Top(th).op = "signal"
    /\ Top(th).i > Len(handlers[Top(th).h].notify)
    /\ LET final == handlers[Top(th).h].final
           inside == SetTop(th, [Top(th) EXCEPT !.at = "infinal"])
       IN  /\ events' = Append(events, Event(IF final.kind = "nil" THEN "exit" ELSE "final",
                                             Top(th).h, final, th))
           /\ exited' = (final.kind \in {"nil", "exit"})
           /\ threads' = IF final.kind = "signal"
                         THEN [inside EXCEPT ![th].stack = Append(@, Frame(final.arg, "signal"))]
                         ELSE inside
    /\ UNCHANGED <<handlers, ch, registered, sent>>
    /\ UNCHANGED outsideInterrupt

\* signal: h.final(s) has returned, the function passed to once.Do returns
FinalReturn(th) ==
    /\ InCall(th)
    /\ Top(th).at = "infinal"
    /\ handlers' = [handlers EXCEPT ![Top(th).h].once = "done"]
    /\ threads' = Pop(th)
    /\ UNCHANGED <<ch, registered, sent, exited, events>>
    /\ UNCHANGED outsideInterrupt

InterruptNext ==
    \/ Deliver
    \/ FnReturns
    \/ Stop
    \/ CloseChannel
    \/ Receive
    \/ ReceiveClosed
    \/ SignalReturns
    \/ \E th \in ThreadIds : OnceBegin(th)
    \/ \E th \in ThreadIds : OnceSkip(th)
    \/ \E th \in ThreadIds : NotifyCall(th)
    \/ \E th \in ThreadIds : NotifyReturn(th)
    \/ \E th \in ThreadIds : CloseEnd(th)
    \/ \E th \in ThreadIds : FinalCall(th)
    \/ \E th \in ThreadIds : FinalReturn(th)

InterruptSpec == InterruptInit /\ [][InterruptNext]_vars

\* ---- package keymutex (src/keymutex/hashed.go) ----

\* the ids used as keys: "a" and "b" as byte strings; they share the one slot of
\* NewHashed(1) and of NewHashed(3) and have a slot each in NewHashed(2)
Ids == {<<97>>, <<98>>}

RECURSIVE xorBits(_, _, _)
\* a ^ b on the lowest `bits` bits
xorBits(a, b, bits) ==
    IF bits = 0
    THEN 0
    ELSE ((a + b) % 2) + 2 * xorBits(a \div 2, b \div 2, bits - 1)

\* one byte of hash/fnv's 32-bit FNV-1a: hash ^= c; hash *= 16777619, on a uint32
\* kept as two 16-bit halves (16777619 = 2^24 + 403)
fnvRound(h, c) ==
    LET lo == (h.lo \div 256) * 256 + xorBits(h.lo % 256, c, 8)
        prod == lo * 403
    IN  [lo |-> prod % 65536,
         hi |-> (h.hi * 403 + prod \div 65536 + (lo % 256) * 256) % 65536]

RECURSIVE fnv32a(_, _, _)
\* h.Write([]byte(id)) from byte i on
fnv32a(id, i, h) ==
    IF i > Len(id) THEN h ELSE fnv32a(id, i + 1, fnvRound(h, id[i]))

\* func (km *hashedKeyMutex) hash(id string) uint32; 2166136261 is the offset basis
hash(id) == fnv32a(id, 1, [hi |-> 33052, lo |-> 40389])

\* km.hash(id) % uint32(len(km.channels)), counting the channels from 1
slotOf(chs, id) ==
    LET n == Len(chs)
        h == hash(id)
    IN  (((h.hi % n) * (65536 % n) + h.lo) % n) + 1

\* faulty variant: a receive that does not wait for a value
chanReady_always(chs, slot) == TRUE

\* case <-km.channels[...]: the receive can proceed
chanReady(chs, slot) == chs[slot] > 0

\* faulty variant: the value sent by UnlockKey is lost
unlockSend_lost(chs, slot) == chs

\* km.channels[...] <- struct{}{} in UnlockKey
unlockSend(chs, slot) == [chs EXCEPT ![slot] = @ + 1]

\* case <-km.channels[...]: return true
select_channel(chs, slot) == [ret |-> "true", channels |-> [chs EXCEPT ![slot] = @ - 1]]

\* faulty variant: the cancelled call reports the lock as acquired
select_Done_true(chs, slot) == [ret |-> "true", channels |-> chs]

\* case <-ctx.Done(): return false
select_Done(chs, slot) == [ret |-> "false", channels |-> chs]

ProcIds == 1..MaxProcs

\* a goroutine between two calls, with the result of its last call
Idle(ret) == [pc |-> "idle", id |-> <<>>, done |-> FALSE, unheld |-> FALSE, ret |-> ret]

\* a goroutine inside the call op on id; done: its context is cancelled; unheld: the
\* lock of id was free when UnlockKey was called
Calling(op, id, done, unheld) ==
    [pc |-> op, id |-> id, done |-> done, unheld |-> unheld, ret |-> ""]

\* the goroutines that hold the lock in the slot
HoldersOf(slot) ==
    {p \in ProcIds : \E id \in held[p] : slotOf(channels, id) = slot}

\* func NewHashed(n int) KeyMutex
KeyMutexInit ==
    /\ \E n \in 1..MaxLocks : channels = [i \in 1..n |-> 1]
    /\ procs = [p \in ProcIds |-> Idle("")]
    /\ held = [p \in ProcIds |-> {}]
    /\ misused = FALSE
    /\ OnlyKeyMutex

\* km.LockKey(id) is called
CallLockKey(p, id) ==
    /\ procs[p].pc = "idle"
    /\ procs' = [procs EXCEPT ![p] = Calling("LockKey", id, FALSE, FALSE)]
    /\ UNCHANGED <<channels, held, misused>>
    /\ UNCHANGED outsideKeyMutex

\* LockKey: the receive from the channel, and the return
LockKeyReturns(p) ==
    /\ procs[p].pc = "LockKey"
    /\ chanReady(channels, slotOf(channels, procs[p].id))
    /\ channels' = [channels EXCEPT ![slotOf(channels, procs[p].id)] = @ - 1]
    /\ held' = [held EXCEPT ![p] = @ \cup {procs[p].id}]
    /\ procs' = [procs EXCEPT ![p] = Idle("locked")]
    /\ UNCHANGED misused
    /\ UNCHANGED outsideKeyMutex

\* km.LockKeyWithContext(id, ctx) is called, with a context that is or is not
\* cancelled already
CallLockKeyWithContext(p, id, done) ==
    /\ procs[p].pc = "idle"
    /\ procs' = [procs EXCEPT ![p] = Calling("LockKeyWithContext", id, done, FALSE)]
    /\ UNCHANGED <<channels, held, misused>>
    /\ UNCHANGED outsideKeyMutex

\* the context of a LockKeyWithContext call in progress is cancelled
Cancel(p) ==
    /\ procs[p].pc = "LockKeyWithContext"
    /\ ~procs[p].done
    /\ procs' = [procs EXCEPT ![p].done = TRUE]
    /\ UNCHANGED <<channels, held, misused>>
    /\ UNCHANGED outsideKeyMutex

\* LockKeyWithContext: select takes the case of the channel
SelectChannel(p) ==
    /\ procs[p].pc = "LockKeyWithContext"
    /\ chanReady(channels, slotOf(channels, procs[p].id))
    /\ LET r == select_channel(channels, slotOf(channels, procs[p].id))
       IN  /\ channels' = r.channels
           /\ procs' = [procs EXCEPT ![p] = Idle(r.ret)]
           /\ held' = [held EXCEPT ![p] = IF r.ret = "true" THEN @ \cup {procs[p].id} ELSE @]
    /\ UNCHANGED misused
    /\ UNCHANGED outsideKeyMutex

\* LockKeyWithContext: select takes the case of ctx.Done(); when both cases are
\* ready select takes either
SelectDone(p) ==
    /\ procs[p].pc = "LockKeyWithContext"
    /\ procs[p].done
    /\ LET r == select_Done(channels, slotOf(channels, procs[p].id))
       IN  /\ channels' = r.channels
           /\ procs' = [procs EXCEPT ![p] = Idle(r.ret)]
           /\ held' = [held EXCEPT ![p] = IF r.ret = "true" THEN @ \cup {procs[p].id} ELSE @]
    /\ UNCHANGED misused
    /\ UNCHANGED outsideKeyMutex

\* km.UnlockKey(id) is called
CallUnlockKey(p, id) ==
    /\ procs[p].pc = "idle"
    /\ procs' = [procs EXCEPT ![p] =
                    Calling("UnlockKey", id, FALSE,
                            channels[slotOf(channels, id)] = lockCap)]
    /\ misused' = (misused \/ id \notin held[p])
    /\ UNCHANGED <<channels, held>>
    /\ UNCHANGED outsideKeyMutex

\* UnlockKey: the send to the channel, which waits while the channel is full, and
\* return nil
UnlockKeyReturns(p) ==
    /\ procs[p].pc = "UnlockKey"
    /\ channels[slotOf(channels, procs[p].id)] < lockCap
    /\ channels' = unlockSend(channels, slotOf(channels, procs[p].id))
    /\ held' = [held EXCEPT ![p] = @ \ {procs[p].id}]
    /\ procs' = [procs EXCEPT ![p] = [Idle("nil") EXCEPT !.unheld = procs[p].unheld]]
    /\ UNCHANGED misused
    /\ UNCHANGED outsideKeyMutex

KeyMutexNext ==
    \/ \E p \in ProcIds : \E id \in Ids : CallLockKey(p, id)
    \/ \E p \in ProcIds : LockKeyReturns(p)
    \/ \E p \in ProcIds : \E id \in Ids : \E done \in BOOLEAN :
           CallLockKeyWithContext(p, id, done)
    \/ \E p \in ProcIds : Cancel(p)
    \/ \E p \in ProcIds : SelectChannel(p)
    \/ \E p \in ProcIds : SelectDone(p)
    \/ \E p \in ProcIds : \E id \in Ids : CallUnlockKey(p, id)
    \/ \E p \in ProcIds : UnlockKeyReturns(p)

KeyMutexSpec == KeyMutexInit /\ [][KeyMutexNext]_vars

\* the scheduler runs every goroutine that can run: a receive from a channel that
\* holds a value, and a send to a channel that has room, are eventually executed
KeyMutexFairness ==
    \A p \in ProcIds :
        /\ WF_vars(LockKeyReturns(p))
        /\ WF_vars(UnlockKeyReturns(p))

KeyMutexFairSpec == KeyMutexInit /\ [][KeyMutexNext]_vars /\ KeyMutexFairness

\* ---- package buffer (src/buffer/ring_growing.go) ----

\* the nil interface{} value; the items written are 1, 2, 3, ...
Nil == 0

\* func NewRingGrowing(initialSize int32) *RingGrowing; data[i] of the code is
\* data[i + 1] here
NewRingGrowing(initialSize) ==
    [data |-> [i \in 1..initialSize |-> Nil], n |-> initialSize, beg |-> 0, readable |-> 0]

\* copy(dst[offset:], src): as many elements as fit
copyInto(dst, offset, src) ==
    [i \in 1..Len(dst) |->
        IF offset < i /\ i <= offset + Len(src) THEN src[i - offset] ELSE dst[i]]

\* faulty variant: the data is copied as it lies, without unwrapping it
grow_asItLies(r) ==
    [r EXCEPT !.data = copyInto([i \in 1..(r.n * 2) |-> Nil], 0, r.data),
              !.n = r.n * 2]

\* faulty variant: the ring grows by one element
grow_byOne(r) ==
    LET newN == r.n + 1
        newData == [i \in 1..newN |-> Nil]
        to == r.beg + r.readable
        filled == IF to <= r.n
                  THEN copyInto(newData, 0, SubSeq(r.data, r.beg + 1, to))
                  ELSE LET head == SubSeq(r.data, r.beg + 1, r.n)
                       IN  copyInto(copyInto(newData, 0, head), Len(head),
                                    SubSeq(r.data, 1, to % r.n))
    IN  [r EXCEPT !.n = newN, !.data = filled, !.beg = 0]

\* the body of `if oldN == oldReadable` in WriteOne: the ring doubles, its items
\* move to the front
grow(r) ==
    LET newN == r.n * 2
        newData == [i \in 1..newN |-> Nil]
        to == r.beg + r.readable
        filled == IF to <= r.n
                  THEN copyInto(newData, 0, SubSeq(r.data, r.beg + 1, to))
                  ELSE LET head == SubSeq(r.data, r.beg + 1, r.n)
                       IN  copyInto(copyInto(newData, 0, head), Len(head),
                                    SubSeq(r.data, 1, to % r.n))
    IN  [r EXCEPT !.n = newN, !.data = filled, !.beg = 0]

\* func (r *RingGrowing) WriteOne(data interface{}), run without interference
WriteOne(r, data) ==
    LET oldReadable == r.readable
        g == IF r.n = r.readable THEN grow(r) ELSE r
    IN  [g EXCEPT !.data[((g.readable + g.beg) % g.n) + 1] = data,
                  !.readable = oldReadable + 1]

\* func (r *RingGrowing) ReadOne() (data interface{}, ok bool), run without
\* interference: both compare-and-swaps succeed
ReadOne(r) ==
    IF r.readable = 0
    THEN [r |-> r, data |-> Nil, ok |-> FALSE]
    ELSE LET oldBeg == r.beg
         IN  [r |-> [r EXCEPT !.readable = @ - 1,
                              !.beg = IF oldBeg = r.n - 1 THEN 0 ELSE oldBeg + 1,
                              !.data[oldBeg + 1] = Nil],
              data |-> r.data[oldBeg + 1],
              ok |-> TRUE]

\* the record of an operation on the ring: what it returned, how many items were
\* written and not yet read before it, and whether and how the ring grew; the size
\* the ring was created with and how many WriteOne calls found it full so far
RingOp(op, data, ok, pending, grew, initialSize, full) ==
    [op |-> op, data |-> data, ok |-> ok, pending |-> pending, grew |-> grew,
     initialSize |-> initialSize, full |-> full]

RingInit ==
    /\ \E initialSize \in 1..MaxInitialSize :
           /\ ring = NewRingGrowing(initialSize)
           /\ ringRet = RingOp("", Nil, FALSE, 0, "no", initialSize, 0)
    /\ written = <<>>
    /\ taken = <<>>
    /\ OnlyBuffer

\* r.WriteOne(data) with the next item
DoWriteOne ==
    /\ Len(written) < MaxWrites
    /\ ring' = WriteOne(ring, Len(written) + 1)
    /\ written' = Append(written, Len(written) + 1)
    /\ ringRet' = RingOp("WriteOne", Nil, FALSE, Len(written) - Len(taken),
                         IF ring.n # ring.readable THEN "no"
                         ELSE IF ring.beg + ring.readable <= ring.n THEN "straight"
                         ELSE "wrapped",
                         ringRet.initialSize,
                         IF ring.readable = ring.n THEN ringRet.full + 1 ELSE ringRet.full)
    /\ UNCHANGED taken
    /\ UNCHANGED outsideBuffer

\* data, ok := r.ReadOne()
DoReadOne ==
    /\ LET res == ReadOne(ring)
       IN  /\ ring' = res.r
           /\ taken' = IF res.ok THEN Append(taken, res.data) ELSE taken
           /\ ringRet' = RingOp("ReadOne", res.data, res.ok, Len(written) - Len(taken), "no",
                                ringRet.initialSize, ringRet.full)
    /\ UNCHANGED written
    /\ UNCHANGED outsideBuffer

RingNext ==
    \/ DoWriteOne
    \/ DoReadOne

RingSpec == RingInit /\ [][RingNext]_vars

\* ---- package unstructured: Unstructured, chainer, broken ----

\* an interface{} value: a scalar, a map or slice (an address in heap), or nil
Scalar(v) == [kind |-> "scalar", v |-> v]
Ref(a) == [kind |-> "ref", v |-> a]
NilValue == [kind |-> "nil", v |-> 0]

\* a map[interface{}]interface{}: its entries as key/value pairs
MapNode(entries) == [kind |-> "map", entries |-> entries, items |-> <<>>]

\* a []interface{}
ArrayNode(items) == [kind |-> "array", entries |-> <<>>, items |-> items]

\* the error values; NoError is the nil error
NoError == [doing |-> "", arg |-> "", path |-> <<>>, cause |-> ""]
missingField == "field not found"
invalidIndex == "index is out of bound"
invalidType == "invalid type"

\* fmt.Errorf("error <doing> %q in %s: %v", arg, c.path, err)
Errorf(doing, arg, path, cause) ==
    [doing |-> doing, arg |-> arg, path |-> path, cause |-> cause]

\* u.Data.(map[interface{}]interface{}) succeeds
IsMap(h, d) == d.kind = "ref" /\ h[d.v].kind = "map"

\* u.Data.([]interface{}) succeeds
IsArray(h, d) == d.kind = "ref" /\ h[d.v].kind = "array"

\* the position of key among the entries of the map, 0 if it has none
EntryOf(node, key) ==
    IF \E j \in 1..Len(node.entries) : node.entries[j].key = key
    THEN CHOOSE j \in 1..Len(node.entries) : node.entries[j].key = key
    ELSE 0

\* func (u Unstructured) Field(key string) (Unstructured, error)
Unstructured_Field(h, d, key) ==
    IF ~IsMap(h, d)
    THEN [data |-> NilValue, err |-> invalidType]
    ELSE IF EntryOf(h[d.v], key) = 0
    THEN [data |-> NilValue, err |-> missingField]
    ELSE [data |-> h[d.v].entries[EntryOf(h[d.v], key)].value, err |-> ""]

\* func (u Unstructured) SetField(key string, value interface{}) error
Unstructured_SetField(h, d, key, value) ==
    IF ~IsMap(h, d)
    THEN [heap |-> h, err |-> invalidType]
    ELSE [heap |-> [h EXCEPT ![d.v].entries =
                       IF EntryOf(h[d.v], key) = 0
                       THEN Append(@, [key |-> key, value |-> value])
                       ELSE [@ EXCEPT ![EntryOf(h[d.v], key)].value = value]],
          err |-> ""]

\* func (u Unstructured) At(index int) (Unstructured, error)
Unstructured_At(h, d, index) ==
    IF ~IsArray(h, d)
    THEN [data |-> NilValue, err |-> invalidType]
    ELSE IF index < 0 \/ index >= Len(h[d.v].items)
    THEN [data |-> NilValue, err |-> invalidIndex]
    ELSE [data |-> h[d.v].items[index + 1], err |-> ""]

\* func (u Unstructured) SetAt(index int, value interface{}) error
Unstructured_SetAt(h, d, index, value) ==
    IF ~IsArray(h, d)
    THEN [heap |-> h, err |-> invalidType]
    ELSE IF index < 0 \/ index >= Len(h[d.v].items)
    THEN [heap |-> h, err |-> invalidIndex]
    ELSE [heap |-> [h EXCEPT ![d.v].items[index + 1] = value], err |-> ""]

\* chainer{data, path}
Chainer(data, path) == [broken |-> FALSE, data |-> data, path |-> path, err |-> NoError]

\* broken{Error}
Broken(err) == [broken |-> TRUE, data |-> NilValue, path |-> <<>>, err |-> err]

\* func NewChainable(value interface{}) Chainable
NewChainable(value) == Chainer(value, <<>>)

\* func (c chainer) Data() and func (c broken) Data()
Chainable_Data(c) ==
    IF c.broken
    THEN [data |-> NilValue, err |-> c.err]
    ELSE [data |-> c.data, err |-> NoError]

\* func (c chainer) Field(key string) Chainable
chainer_Field(h, c, key) ==
    LET r == Unstructured_Field(h, c.data, key) IN
    IF r.err # ""
    THEN Broken(Errorf("getting key", key, c.path, r.err))
    ELSE Chainer(r.data, Append(c.path, [field |-> TRUE, name |-> key]))

\* func (c chainer) SetField(key string, value interface{}) Chainable, and the document
chainer_SetField(h, c, key, value) ==
    LET r == Unstructured_SetField(h, c.data, key, value) IN
    IF r.err # ""
    THEN [chain |-> Broken(Errorf("setting key", key, c.path, r.err)), heap |-> r.heap]
    ELSE [chain |-> c, heap |-> r.heap]

\* func (c chainer) At(index int) Chainable
chainer_At(h, c, index) ==
    LET r == Unstructured_At(h, c.data, index) IN
    IF r.err # ""
    THEN Broken(Errorf("getting item", ToString(index), c.path, r.err))
    ELSE Chainer(r.data, Append(c.path, [field |-> FALSE, name |-> ToString(index)]))

\* faulty variant: the error of Unstructured.SetAt is dropped
chainer_SetAt_dropsError(h, c, index, value) ==
    [chain |-> c, heap |-> Unstructured_SetAt(h, c.data, index, value).heap]

\* func (c chainer) SetAt(index int, value interface{}) Chainable, and the document
chainer_SetAt(h, c, index, value) ==
    LET r == Unstructured_SetAt(h, c.data, index, value) IN
    IF r.err # ""
    THEN [chain |-> Broken(Errorf("setting item", ToString(index), c.path, r.err)),
          heap |-> r.heap]
    ELSE [chain |-> c, heap |-> r.heap]

\* func (c broken) Field, At
broken_get(c) == c

\* func (c broken) SetField, SetAt, and the document
broken_set(h, c) == [chain |-> c, heap |-> h]

\* the keys, indexes and values the chains use
Keys == {"a", "b", "z"}
Indexes == -1..2
NewValues == {Scalar(9)}

\* the document: {"a": [{}, 2], "b": 1}
DocHeap ==
    <<MapNode(<<[key |-> "a", value |-> Ref(2)], [key |-> "b", value |-> Scalar(1)]>>),
      ArrayNode(<<Ref(3), Scalar(2)>>),
      MapNode(<<>>)>>

\* the record of the last operation of the chain: the number of operations so far
\* and, for Data(), what it returned
ChainOp(op, n, data, err) == [op |-> op, n |-> n, data |-> data, err |-> err]

\* the first operation whose Unstructured call failed: the error Unstructured
\* returned, the error of the Chainable returned, the document at that moment, the
\* operations since
Failure(cause, err, h) ==
    [failed |-> TRUE, cause |-> cause, err |-> err, heap |-> h, after |-> 0]

\* the bookkeeping of an operation on the chain c whose Unstructured call returned
\* cause, and which returned the chain next
Noted(c, cause, next, h) ==
    IF firstFailure.failed
    THEN [firstFailure EXCEPT !.after = @ + 1]
    ELSE IF ~c.broken /\ cause # ""
    THEN Failure(cause, next.err, h)
    ELSE firstFailure

\* NewChainable(value) on the document, one of its parts, or a scalar
ChainInit ==
    /\ heap = DocHeap
    /\ \E value \in {Ref(1), Ref(2), Scalar(1)} : chain = NewChainable(value)
    /\ chainRet = ChainOp("", 0, NilValue, NoError)
    /\ firstFailure = [failed |-> FALSE, cause |-> "", err |-> NoError, heap |-> <<>>,
                       after |-> 0]
    /\ OnlyUnstructured

\* c = c.Field(key)
DoField(key) ==
    /\ chainRet.n < MaxChain
    /\ chain' = IF chain.broken THEN broken_get(chain) ELSE chainer_Field(heap, chain, key)
    /\ chainRet' = ChainOp("Field", chainRet.n + 1, NilValue, NoError)
    /\ firstFailure' = Noted(chain, Unstructured_Field(heap, chain.data, key).err,
                             chain', heap)
    /\ UNCHANGED heap
    /\ UNCHANGED outsideUnstructured

\* c = c.SetField(key, value)
DoSetField(key, value) ==
    /\ chainRet.n < MaxChain
    /\ LET r == IF chain.broken
                THEN broken_set(heap, chain)
                ELSE chainer_SetField(heap, chain, key, value)
       IN  /\ chain' = r.chain
           /\ heap' = r.heap
    /\ chainRet' = ChainOp("SetField", chainRet.n + 1, NilValue, NoError)
    /\ firstFailure' = Noted(chain, Unstructured_SetField(heap, chain.data, key, value).err,
                             chain', heap')
    /\ UNCHANGED outsideUnstructured

\* c = c.At(index)
DoAt(index) ==
    /\ chainRet.n < MaxChain
    /\ chain' = IF chain.broken THEN broken_get(chain) ELSE chainer_At(heap, chain, index)
    /\ chainRet' = ChainOp("At", chainRet.n + 1, NilValue, NoError)
    /\ firstFailure' = Noted(chain, Unstructured_At(heap, chain.data, index).err,
                             chain', heap)
    /\ UNCHANGED heap
    /\ UNCHANGED outsideUnstructured

\* c = c.SetAt(index, value)
DoSetAt(index, value) ==
    /\ chainRet.n < MaxChain
    /\ LET r == IF chain.broken
                THEN broken_set(heap, chain)
                ELSE chainer_SetAt(heap, chain, index, value)
       IN  /\ chain' = r.chain
           /\ heap' = r.heap
    /\ chainRet' = ChainOp("SetAt", chainRet.n + 1, NilValue, NoError)
    /\ firstFailure' = Noted(chain, Unstructured_SetAt(heap, chain.data, index, value).err,
                             chain', heap')
    /\ UNCHANGED outsideUnstructured

\* data, err := c.Data()
DoData ==
    /\ chainRet.op # "Data"
    /\ chainRet' = ChainOp("Data", chainRet.n, Chainable_Data(chain).data,
                           Chainable_Data(chain).err)
    /\ UNCHANGED <<heap, chain, firstFailure>>
    /\ UNCHANGED outsideUnstructured

ChainNext ==
    \/ \E key \in Keys : DoField(key)
    \/ \E key \in Keys : \E value \in NewValues : DoSetField(key, value)
    \/ \E index \in Indexes : DoAt(index)
    \/ \E index \in Indexes : \E value \in NewValues : DoSetAt(index, value)
    \/ DoData

ChainSpec == ChainInit /\ [][ChainNext]_vars

\* ---- Unstructured.InsertAt (src/unstructured/unstructured.go) ----

\* the result of an InsertAt call: the slice and the error returned, or a panic; the
\* document afterwards; the arguments and the document before, for reference
InsertResult(ret, err, panics, h) ==
    [ret |-> ret, err |-> err, panicked |-> panics, heap |-> h]

\* items with value put in before position index (counted from 0) and the last
\* item dropped: what the caller's slice shows after the shift in a shared array
ShiftedIn(items, index, value) ==
    [i \in 1..Len(items) |->
        IF i < index + 1 THEN items[i]
        ELSE IF i = index + 1 THEN value
        ELSE items[i - 1]]

\* func (u *Unstructured) InsertAt(index int, value interface{}) ([]interface{}, error)
\* on a slice with `spare` unused elements of capacity.  append(a, 0) extends a in
\* place when spare > 0 and copies it otherwise; a[index+1:] and a[index:] panic when
\* index is outside 0..len(a)
InsertAt(h, d, spare, index, value) ==
    IF ~IsArray(h, d)
    THEN InsertResult(<<>>, invalidType, FALSE, h)
    ELSE LET a == h[d.v].items
             appended == Append(a, Scalar(0))
         IN  IF index + 1 > Len(appended) \/ index < 0
             THEN InsertResult(<<>>, "", TRUE, h)
             ELSE InsertResult(ShiftedIn(appended, index, value), "", FALSE,
                               IF spare > 0
                               THEN [h EXCEPT ![d.v].items = ShiftedIn(a, index, value)]
                               ELSE h)

\* the record of the last InsertAt call: its arguments, the document before it, and
\* its result
InsertOp(n, index, before, res) ==
    [op |-> "InsertAt", n |-> n, index |-> index, before |-> before, res |-> res]

\* an Unstructured on the document, one of its parts, or a scalar
InsertInit ==
    /\ heap = DocHeap
    /\ \E value \in {Ref(1), Ref(2), Scalar(1)} : chain = NewChainable(value)
    /\ chainRet = InsertOp(0, 0, <<>>, InsertResult(<<>>, "", FALSE, <<>>))
    /\ firstFailure = <<>>
    /\ OnlyUnstructured

\* a, err := u.InsertAt(index, value)
DoInsertAt(index, value, spare) ==
    /\ ~chainRet.res.panicked
    /\ chainRet.n < MaxInserts
    /\ LET res == InsertAt(heap, chain.data, spare, index, value)
       IN  /\ chainRet' = InsertOp(chainRet.n + 1, index, heap, res)
           /\ heap' = res.heap
    /\ UNCHANGED <<chain, firstFailure>>
    /\ UNCHANGED outsideUnstructured

\* u.Data = a: the array returned is put in the place of the old one
Reinsert ==
    /\ ~chainRet.res.panicked
    /\ chainRet.n > 0
    /\ chainRet.res.err = ""
    /\ Len(chainRet.res.ret) <= MaxLen
    /\ heap' = [heap EXCEPT ![chain.data.v].items = chainRet.res.ret]
    /\ UNCHANGED <<chain, chainRet, firstFailure>>
    /\ UNCHANGED outsideUnstructured

InsertNext ==
    \/ \E index \in -1..(MaxLen + 1) : \E value \in NewValues : \E spare \in 0..1 :
           DoInsertAt(index, value, spare)
    \/ Reinsert

InsertSpec == InsertInit /\ [][InsertNext]_vars

\* ---- package io: ConsistentRead (src/unnamed/part_000) ----

\* what a file holds: so many bytes, told apart from other contents of the same size
\* by tag
Content(size, tag) == [size |-> size, tag |-> tag]

\* the file does not exist: os.Open and ioutil.ReadFile fail
Missing == Content(-1, 0)

\* a nil []byte
NoContent == Content(-2, 0)

Contents ==
    {Content(0, 0), Content(100, 1), Content(100, 2), Content(600, 1), Content(600, 2)}

\* const maxBufferSize = 1024 * 512
maxBufferSize == 1024 * 512

\* contents[:n] after n, err := f.Read(contents): the first maxBufferSize bytes
ReadInto(c) ==
    IF c.size <= maxBufferSize THEN c ELSE Content(maxBufferSize, c.tag)

\* the ConsistentRead call: pc is the statement it executes next, reads what every
\* read of the file so far gave
Reading(pc, attempts, size, i, oldContent, reads, ret, err) ==
    [pc |-> pc, attempts |-> attempts, size |-> size, i |-> i,
     oldContent |-> oldContent, reads |-> reads, ret |-> ret, err |-> err]

\* return ret, err
Returned(r, reads, ret, err) ==
    [r EXCEPT !.pc = "done", !.reads = reads, !.ret = ret, !.err = err]

\* ConsistentRead(filename, attempts) is called on a file that exists or not
ReadInit ==
    /\ file \in Contents \cup {Missing}
    /\ \E attempts \in 0..MaxAttempts :
           reading = Reading("getFileSize", attempts, 0, 0, NoContent, <<>>,
                             NoContent, "")
    /\ OnlyIo

\* the kernel, or another process, changes or removes the file
Change(c) ==
    /\ reading.pc # "done"
    /\ c # file
    /\ file' = c
    /\ UNCHANGED reading
    /\ UNCHANGED outsideIo

\* size, err := getFileSize(filename); if size < 512 { ... }
GetFileSize ==
    /\ reading.pc = "getFileSize"
    /\ reading' =
           IF file = Missing
           THEN Returned(reading, reading.reads, NoContent, "open")
           ELSE [reading EXCEPT !.size = file.size + 1,
                                !.pc = IF file.size + 1 < smallFile
                                       THEN "consistentReadFileNoStat"
                                       ELSE "ReadFile"]
    /\ UNCHANGED file
    /\ UNCHANGED outsideIo

\* if contents, err := consistentReadFileNoStat(filename); err == nil { return contents, nil }
\* f.Read on an empty file returns 0, io.EOF
ConsistentReadFileNoStat ==
    /\ reading.pc = "consistentReadFileNoStat"
    /\ reading' =
           IF file = Missing \/ file.size = 0
           THEN [reading EXCEPT !.pc = "ReadFile"]
           ELSE Returned(reading, Append(reading.reads, ReadInto(file)),
                         ReadInto(file), "")
    /\ UNCHANGED file
    /\ UNCHANGED outsideIo

\* for i < attempts: the loop is left with InconsistentReadError when i reaches attempts
LoopOrFail(r) ==
    IF r.i < r.attempts
    THEN [r EXCEPT !.pc = "loop"]
    ELSE Returned(r, r.reads, NoContent, "InconsistentReadError")

\* oldContent, err := ioutil.ReadFile(filename)
ReadOld ==
    /\ reading.pc = "ReadFile"
    /\ reading' =
           IF file = Missing
           THEN Returned(reading, reading.reads, NoContent, "open")
           ELSE LoopOrFail([reading EXCEPT !.oldContent = file,
                                           !.reads = Append(@, file)])
    /\ UNCHANGED file
    /\ UNCHANGED outsideIo

\* bytes.Compare(oldContent, newContent) == 0
sameContent(old, new) == old = new

\* newContent, err := ioutil.ReadFile(filename) in the loop, the comparison, i++
ReadNew ==
    /\ reading.pc = "loop"
    /\ reading' =
           IF file = Missing
           THEN Returned(reading, reading.reads, NoContent, "open")
           ELSE IF sameContent(reading.oldContent, file)
           THEN Returned(reading, Append(reading.reads, file), file, "")
           ELSE LoopOrFail([reading EXCEPT !.oldContent = file,
                                           !.reads = Append(@, file),
                                           !.i = @ + 1])
    /\ UNCHANGED file
    /\ UNCHANGED outsideIo

ReadNext ==
    \/ \E c \in Contents \cup {Missing} : Change(c)
    \/ GetFileSize
    \/ ConsistentReadFileNoStat
    \/ ReadOld
    \/ ReadNew

ReadSpec == ReadInit /\ [][ReadNext]_vars

\* ---- package buffer: ReadOne calls of two goroutines, statement by statement ----

Readers == {"r1", "r2"}

\* a goroutine calling ReadOne: the statement it executes next, its locals, how many
\* calls it has made, what the last call returned and whether that call has taken
\* one from r.readable
Reader(pc, oldReadable, oldN, oldBeg, calls, data, ok, consumed) ==
    [pc |-> pc, oldReadable |-> oldReadable, oldN |-> oldN, oldBeg |-> oldBeg,
     calls |-> calls, data |-> data, ok |-> ok, consumed |-> consumed]

\* return data, ok
ReadReturns(rd, data, ok) ==
    [rd EXCEPT !.pc = "idle", !.data = data, !.ok = ok]

\* atomic.CompareAndSwapInt32(addr, old, new): whether it swaps
cas(value, old) == value = old

AllIdle == \A p \in Readers : ringRet[p].pc = "idle"

RingRaceInit ==
    /\ \E initialSize \in 1..MaxInitialSize : ring = NewRingGrowing(initialSize)
    /\ written = <<>>
    /\ taken = <<>>
    /\ ringRet = [p \in Readers |-> Reader("idle", 0, 0, 0, 0, Nil, FALSE, FALSE)]
    /\ OnlyBuffer

\* r.WriteOne(data) with the next item, while no ReadOne call is in progress
RaceWriteOne ==
    /\ AllIdle
    /\ Len(written) < MaxRaceWrites
    /\ ring' = WriteOne(ring, Len(written) + 1)
    /\ written' = Append(written, Len(written) + 1)
    /\ UNCHANGED <<taken, ringRet>>
    /\ UNCHANGED outsideBuffer

\* oldReadable := atomic.LoadInt32(&r.readable)
ReadLoadReadable(p) ==
    /\ ringRet[p].pc = "idle"
    /\ ringRet[p].calls < MaxReads
    /\ ringRet' = [ringRet EXCEPT ![p] =
                      Reader("loadN", ring.readable, 0, 0, @.calls + 1, Nil, FALSE, FALSE)]
    /\ UNCHANGED <<ring, written, taken>>
    /\ UNCHANGED outsideBuffer

\* oldN := atomic.LoadInt32(&r.n); if oldReadable == 0 { return nil, false }
ReadLoadN(p) ==
    /\ ringRet[p].pc = "loadN"
    /\ ringRet' = [ringRet EXCEPT ![p] =
                      IF @.oldReadable = 0
                      THEN ReadReturns([@ EXCEPT !.oldN = ring.n], Nil, FALSE)
                      ELSE [@ EXCEPT !.oldN = ring.n, !.pc = "casReadable"]]
    /\ UNCHANGED <<ring, written, taken>>
    /\ UNCHANGED outsideBuffer

\* if !atomic.CompareAndSwapInt32(&r.readable, oldReadable, oldReadable-1) { return nil, false }
ReadCasReadable(p) ==
    /\ ringRet[p].pc = "casReadable"
    /\ IF cas(ring.readable, ringRet[p].oldReadable)
       THEN /\ ring' = [ring EXCEPT !.readable = ringRet[p].oldReadable - 1]
            /\ ringRet' = [ringRet EXCEPT ![p].pc = "loadBeg", ![p].consumed = TRUE]
       ELSE /\ ring' = ring
            /\ ringRet' = [ringRet EXCEPT ![p] = ReadReturns(@, Nil, FALSE)]
    /\ UNCHANGED <<written, taken>>
    /\ UNCHANGED outsideBuffer

\* oldBeg := atomic.LoadInt32(&r.beg)
ReadLoadBeg(p) ==
    /\ ringRet[p].pc = "loadBeg"
    /\ ringRet' = [ringRet EXCEPT ![p].oldBeg = ring.beg, ![p].pc = "casBeg"]
    /\ UNCHANGED <<ring, written, taken>>
    /\ UNCHANGED outsideBuffer

\* if oldBeg == oldN-1 { CompareAndSwapInt32(&r.beg, oldBeg, 0) } else
\* { CompareAndSwapInt32(&r.beg, oldBeg, oldBeg+1) }; return nil, false if it fails
ReadCasBeg(p) ==
    /\ ringRet[p].pc = "casBeg"
    /\ LET rd == ringRet[p]
       IN  IF cas(ring.beg, rd.oldBeg)
           THEN /\ ring' = [ring EXCEPT !.beg = IF rd.oldBeg = rd.oldN - 1
                                                THEN 0
                                                ELSE rd.oldBeg + 1]
                /\ ringRet' = [ringRet EXCEPT ![p].pc = "take"]
           ELSE /\ ring' = ring
                /\ ringRet' = [ringRet EXCEPT ![p] = ReadReturns(@, Nil, FALSE)]
    /\ UNCHANGED <<written, taken>>
    /\ UNCHANGED outsideBuffer

\* element := r.data[oldBeg]; r.data[oldBeg] = nil; return element, true
ReadTake(p) ==
    /\ ringRet[p].pc = "take"
    /\ LET element == ring.data[ringRet[p].oldBeg + 1]
       IN  /\ ring' = [ring EXCEPT !.data[ringRet[p].oldBeg + 1] = Nil]
           /\ ringRet' = [ringRet EXCEPT ![p] = ReadReturns(@, element, TRUE)]
           /\ taken' = Append(taken, element)
    /\ UNCHANGED written
    /\ UNCHANGED outsideBuffer

RingRaceNext ==
    \/ RaceWriteOne
    \/ \E p \in Readers : ReadLoadReadable(p)
    \/ \E p \in Readers : ReadLoadN(p)
    \/ \E p \in Readers : ReadCasReadable(p)
    \/ \E p \in Readers : ReadLoadBeg(p)
    \/ \E p \in Readers : ReadCasBeg(p)
    \/ \E p \in Readers : ReadTake(p)

RingRaceSpec == RingRaceInit /\ [][RingRaceNext]_vars

\* ---- package mount/testing: FakeMounter (src/mount/testing/fake.go) ----

\* mount.MountPoint{Device, Path, Type, Opts}
MountPoint(device, path, type, opts) ==
    [Device |-> device, Path |-> path, Type |-> type, Opts |-> opts]

\* FakeAction{Action, Target, Source, FSType}
FakeAction(action, target, source, fstype) ==
    [Action |-> action, Target |-> target, Source |-> source, FSType |-> fstype]

FakeActionMount == "mount"

FakeActionUnmount == "unmount"

\* the directories mounts are made on; /mnt/link is a symbolic link to /mnt/a and
\* /mnt/none does not exist
Targets == {"/mnt/a", "/mnt/b", "/mnt/link", "/mnt/none"}

Sources == {"/dev/sda", "/mnt/a"}

FSTypes == {"ext4"}

OptionLists == {<<>>, <<"ro">>, <<"bind">>, <<"bind", "ro">>}

\* absTarget, err := filepath.EvalSymlinks(target); if err != nil { absTarget = target }
EvalSymlinks(target) ==
    IF target = "/mnt/link" THEN "/mnt/a" ELSE target

\* for _, mnt := range f.MountPoints { if source == mnt.Path { source = mnt.Device; break } }
BindSource(mps, source) ==
    LET found == {j \in 1..Len(mps) : mps[j].Path = source}
    IN  IF found = {}
        THEN source
        ELSE mps[CHOOSE j \in found : \A h \in found : j <= h].Device

RECURSIVE MountOptions(_, _, _, _)
\* the loop over options in Mount: the source and the opts it ends with
MountOptions(mps, options, source, opts) ==
    IF options = <<>>
    THEN [source |-> source, opts |-> opts]
    ELSE LET option == Head(options)
         IN  MountOptions(mps, Tail(options),
                          IF option = "bind" THEN BindSource(mps, source) ELSE source,
                          IF option = "ro" THEN Append(opts, "ro") ELSE opts)

\* the record of the last call on the FakeMounter: its target as given, and the
\* mount points and the log before it
MountOp(op, target, before, logBefore) ==
    [op |-> op, target |-> target, before |-> before, logBefore |-> logBefore]

\* &FakeMounter{}
MountInit ==
    /\ mountPoints = <<>>
    /\ mountLog = <<>>
    /\ mountRet = MountOp("", "", <<>>, <<>>)
    /\ OnlyMount

\* func (f *FakeMounter) Mount(source, target, fstype string, options []string) error
Mount(source, target, fstype, options) ==
    /\ Len(mountLog) < MaxMountOps
    /\ LET o == MountOptions(mountPoints, options, source, <<>>)
           absTarget == EvalSymlinks(target)
       IN  /\ mountPoints' = Append(mountPoints,
                                    MountPoint(o.source, absTarget, fstype, o.opts))
           /\ mountLog' = Append(mountLog,
                                 FakeAction(FakeActionMount, absTarget, o.source, fstype))
    /\ mountRet' = MountOp("Mount", target, mountPoints, mountLog)
    /\ UNCHANGED outsideMount

RECURSIVE newMountpoints(_, _)
\* the loop of Unmount: the mount points on other paths, each as
\* mount.MountPoint{Device: mp.Device, Path: mp.Path, Type: mp.Type}
newMountpoints(mps, absTarget) ==
    IF mps = <<>>
    THEN <<>>
    ELSE IF Head(mps).Path = absTarget
    THEN newMountpoints(Tail(mps), absTarget)
    ELSE <<MountPoint(Head(mps).Device, Head(mps).Path, Head(mps).Type, <<>>)>>
         \o newMountpoints(Tail(mps), absTarget)

\* func (f *FakeMounter) Unmount(target string) error
Unmount(target) ==
    /\ Len(mountLog) < MaxMountOps
    /\ LET absTarget == EvalSymlinks(target)
       IN  /\ mountPoints' = newMountpoints(mountPoints, absTarget)
           /\ mountLog' = Append(mountLog, FakeAction(FakeActionUnmount, absTarget, "", ""))
    /\ mountRet' = MountOp("Unmount", target, mountPoints, mountLog)
    /\ UNCHANGED outsideMount

MountNext ==
    \/ \E source \in Sources : \E target \in Targets : \E fstype \in FSTypes :
       \E options \in OptionLists : Mount(source, target, fstype, options)
    \/ \E target \in Targets : Unmount(target)

MountSpec == MountInit /\ [][MountNext]_vars

\* ---- the claims ----

\* the last call wrote a line for trace t
WroteLineFor(t) == \E i \in 1..Len(out) : out[i].trace = t

\* C1: a LogIfLong(threshold) call on a trace whose elapsed time is below the
\* threshold, with the verbosity override off, emits no log record for that trace.
C1_NoRecordWhenShort ==
    (/\ lastCall.op = "LogIfLong"
     /\ lastCall.elapsed < lastCall.threshold
     /\ ~verbose)
    => ~WroteLineFor(lastCall.t)

\* C2: a LogIfLong(threshold) call on a trace whose elapsed time is at least the
\* threshold (equal counts) emits a log record for that trace.
C2_RecordWhenLong ==
    (/\ lastCall.op = "LogIfLong"
     /\ lastCall.elapsed >= lastCall.threshold)
    => WroteLineFor(lastCall.t)

\* C2, reached: a nested trace that took exactly its non-zero threshold was logged
C2_Witness ==
    /\ lastCall.op = "LogIfLong"
    /\ lastCall.threshold > 0
    /\ lastCall.elapsed = lastCall.threshold
    /\ traces[lastCall.t].parentTrace # 0
    /\ WroteLineFor(lastCall.t)

RECURSIVE SumThresholds(_, _)
\* the sum of the thresholds of the traces ids
SumThresholds(ts, ids) ==
    IF ids = {}
    THEN 0
    ELSE LET id == CHOOSE x \in ids : TRUE
         IN  ts[id].threshold + SumThresholds(ts, ids \ {id})

\* the direct children of t that are nested traces with their own threshold
ThresholdChildren(ts, t) ==
    {ts[t].stepsTraces[i].trace : i \in {j \in 1..Len(ts[t].stepsTraces) :
        /\ ts[t].stepsTraces[j].kind = "trace"
        /\ ts[ts[t].stepsTraces[j].trace].threshold >= 0}}

\* the step threshold as the specification computes it
ExpectedStepThreshold(ts, t) ==
    LET T == ts[t].threshold
        children == Len(ts[t].stepsTraces)
        remaining == T - SumThresholds(ts, ThresholdChildren(ts, t))
        n == (children - Cardinality(ThresholdChildren(ts, t))) + 1
    IN  IF remaining < T \div 4
        THEN (T \div 4) \div (children + 1)
        ELSE remaining \div n

C4_Promotion ==
    \A n \in TraceIds :
        (/\ lastCall.op = "LogIfLong"
         /\ traces[lastCall.t].parentTrace = 0
         /\ fin[lastCall.t].count = 1
         /\ lastCall.elapsed < lastCall.threshold
         /\ ~verbose
         /\ traces[n].parentTrace = lastCall.t
         /\ fin[n].count = 1
         /\ traces[n].threshold # NoThreshold
         /\ fin[n].first - traces[n].startTime >= traces[n].threshold)
        => (records[n] >= 1 /\ records[lastCall.t] = 0)

\* C5: a nested trace is written as a block in a line only if Log or LogIfLong was
\* called on it and its elapsed time then was not below the threshold it was
\* finalized with.
C5_BlockOnlyIfWithinThreshold ==
    \A i \in 1..Len(out) : \A j \in 1..Len(out[i].buffer) :
        LET e == out[i].buffer[j] IN
        (e.kind = "[" /\ ~verbose)
        => /\ fin[e.trace].count >= 1
           /\ \/ traces[e.trace].threshold = NoThreshold
              \/ fin[e.trace].first - traces[e.trace].startTime >= traces[e.trace].threshold

\* C6: a Log or LogIfLong call on a trace that has a parent writes nothing to the log.
C6_NestedLogsNothing ==
    (/\ lastCall.op \in {"Log", "LogIfLong"}
     /\ traces[lastCall.t].parentTrace # 0)
    => out = <<>>

\* C7: when every trace has been finalized exactly once, nested traces before their
\* parents, no trace has been written to the log more than once.
C7_LoggedAtMostOnce ==
    (\A t \in TraceIds : fin[t].count = 1 /\ ~fin[t].early)
    => \A t \in TraceIds : records[t] <= 1

\* C8: after two Log calls on a trace, TotalTime returns the time from its start to
\* the first Log call, however much time has passed.
C8_TotalTimeFixed ==
    (/\ lastCall.op = "TotalTime"
     /\ fin[lastCall.t].count >= 2
     /\ traces[lastCall.t].threshold = NoThreshold)
    => lastCall.ret = fin[lastCall.t].first - traces[lastCall.t].startTime

\* C9: Nest on the nil trace does not panic and returns a new trace without parent.
C9_NestOnNil ==
    (lastCall.op = "Nest" /\ lastCall.t = 0)
    => /\ ~panicked
       /\ lastCall.ret \in TraceIds
       /\ traces[lastCall.ret].parentTrace = 0

RECURSIVE InLine(_, _)
\* trace n is the trace of the line or one of its descendants
InLine(line, n) ==
    \/ n = line.trace
    \/ traces[n].parentTrace # 0 /\ InLine(line, traces[n].parentTrace)

RECURSIVE ThresholdInLine(_, _)
\* the step threshold that applies to the steps of trace n in the line: the one the
\* line was logged with, replaced by that of the innermost enclosing nested trace
\* that has a threshold of its own
ThresholdInLine(line, n) ==
    IF n = line.trace
    THEN line.stepThreshold
    ELSE IF traces[n].threshold # NoThreshold
         THEN calculateStepThreshold(traces, n)
         ELSE ThresholdInLine(line, traces[n].parentTrace)

\* the time step k of trace n is measured from: the step before it in the trace,
\* or the start of the trace
MeasuredFrom(n, k) ==
    LET before == {j \in 1..(k - 1) : traces[n].stepsTraces[j].kind = "step"}
    IN  IF before = {}
        THEN traces[n].startTime
        ELSE traces[n].stepsTraces[CHOOSE j \in before : \A h \in before : h <= j].stepTime

\* the elapsed delta of step k of trace n
Delta(n, k) == traces[n].stepsTraces[k].stepTime - MeasuredFrom(n, k)

\* step k of trace n is written in the line
StepWritten(line, n, k) ==
    \E j \in 1..Len(line.buffer) :
        line.buffer[j] = Entry("step", n, k, Delta(n, k))

\* step k of trace n
IsStep(n, k) ==
    k \in 1..Len(traces[n].stepsTraces) /\ traces[n].stepsTraces[k].kind = "step"

\* C10: in a logged line a step is written if and only if the step threshold is zero,
\* or the step's delta is greater than the step threshold, or the override is on.
C10_StepWrittenIff ==
    \A i \in 1..Len(out) : \A n \in TraceIds : \A k \in 1..MaxItems :
        (InLine(out[i], n) /\ IsStep(n, k))
        => (StepWritten(out[i], n, k)
            <=> \/ ThresholdInLine(out[i], n) = 0
                \/ Delta(n, k) > ThresholdInLine(out[i], n)
                \/ verbose)

\* C10, reached: with the override off, a line logged with a non-zero step threshold
\* leaves out a step whose delta equals the threshold and has a step whose delta is
\* greater
C10_Witness ==
    /\ ~verbose
    /\ \E i \in 1..Len(out) : \E k, h \in 1..MaxItems :
        /\ out[i].stepThreshold > 0
        /\ IsStep(out[i].trace, k)
        /\ IsStep(out[i].trace, h)
        /\ Delta(out[i].trace, k) = out[i].stepThreshold
        /\ ~StepWritten(out[i], out[i].trace, k)
        /\ Delta(out[i].trace, h) > out[i].stepThreshold
        /\ StepWritten(out[i], out[i].trace, h)

\* the entries of a line that are about direct children of the trace t: its steps
\* and the opening of its nested traces
IsChildEntry(t, e) ==
    \/ e.kind = "step" /\ e.trace = t
    \/ e.kind = "[" /\ traces[e.trace].parentTrace = t

\* the position in t.stepsTraces of the child an entry is about
ChildPos(t, e) ==
    IF e.kind = "step"
    THEN e.msg
    ELSE CHOOSE k \in 1..Len(traces[t].stepsTraces) :
             traces[t].stepsTraces[k] = TraceItem(e.trace)

\* the children of the line's trace in the order the line shows them
Visited(line) ==
    LET es == SelectSeq(line.buffer, LAMBDA e : IsChildEntry(line.trace, e))
    IN  [i \in 1..Len(es) |-> ChildPos(line.trace, es[i])]

\* the children of t are steps, each taken later than the one before
StepsAtIncreasingTimes(t) ==
    LET c == traces[t].stepsTraces IN
    /\ \A k \in 1..Len(c) : c[k].kind = "step"
    /\ \A k \in 2..Len(c) : c[k - 1].stepTime < c[k].stepTime

\* (t1 - start), (t2 - t1), (t3 - t2), ... for the steps of t
ExpectedDeltas(t) ==
    LET c == traces[t].stepsTraces IN
    [k \in 1..Len(c) |->
        Entry("step", t, k,
              c[k].stepTime - (IF k = 1 THEN traces[t].startTime ELSE c[k - 1].stepTime))]

ChildWritten(line, k) ==
    LET c == traces[line.trace].stepsTraces[k] IN
    IF c.kind = "step"
    THEN \E j \in 1..Len(line.buffer) :
             /\ line.buffer[j].kind = "step"
             /\ line.buffer[j].trace = line.trace
             /\ line.buffer[j].msg = k
    ELSE \E j, l \in 1..Len(line.buffer) :
             /\ j < l
             /\ line.buffer[j] = Entry("[", c.trace, 0, now - traces[c.trace].startTime)
             /\ line.buffer[l] = Entry("]", c.trace, 0, 0)

\* C12: Log() writes one line for the trace, and the line shows every direct child
\* step and every direct nested trace, whatever time each of them took.
C12_LogWritesEveryChild ==
    lastCall.op \in {"Log", "LogSorted"} =>
        /\ Len(out) = 1
        /\ out[1].trace = lastCall.t
        /\ \A k \in 1..Len(traces[lastCall.t].stepsTraces) : ChildWritten(out[1], k)

\* Log has written a step that took no time at all and a nested trace, with the
\* verbosity override off
C12_Witness ==
    /\ lastCall.op = "Log"
    /\ ~verbose
    /\ C12_LogWritesEveryChild
    /\ \E k \in 1..Len(traces[lastCall.t].stepsTraces) :
           /\ traces[lastCall.t].stepsTraces[k].kind = "step"
           /\ Delta(lastCall.t, k) = 0
    /\ \E k \in 1..Len(traces[lastCall.t].stepsTraces) :
           traces[lastCall.t].stepsTraces[k].kind = "trace"

\* C13: with the verbosity override on, a LogIfLong(threshold) call emits the
\* record of its trace even when the trace has run for less than the threshold.
C13_VerboseForcesRecord ==
    lastCall.op = "LogIfLong" /\ verbose => WroteLineFor(lastCall.t)

\* how often the k-th notify function of handler h has been called
Calls(h, k) ==
    Len(SelectSeq(events, LAMBDA e : /\ e.ev = "call"
                                     /\ e.h = h
                                     /\ e.fn = handlers[h].notify[k]))

\* C14: every notify function of a Handler used for one Run is invoked exactly
\* once, however the return of the critical section and the arrival of a signal
\* interleave: never twice, and once by the time Run has returned or the process
\* has exited.
C14_NotifyExactlyOnce ==
    \A h \in 1..Len(handlers) :
    \A k \in 1..Len(handlers[h].notify) :
        /\ Calls(h, k) <= 1
        /\ (exited \/ threads["main"].pc = "returned") => Calls(h, k) = 1

\* the critical section has returned while the goroutine started by Run is between
\* two notify functions: close waits in once.Do, and Run later returns with every
\* function called once
C14_Witness ==
    /\ handlers # <<>>
    /\ Len(handlers[RunHandler].notify) = MaxNotify
    /\ threads["main"].stack # <<>>
    /\ Top("main").at = "Do"
    /\ threads["sig"].stack # <<>>
    /\ Top("sig").h = RunHandler
    /\ Top("sig").at = "loop"
    /\ Top("sig").i = 2
    /\ Calls(RunHandler, 1) = 1
    /\ Calls(RunHandler, 2) = 0

\* what happens for handler h, in order
EventsOf(h) == SelectSeq(events, LAMBDA e : e.h = h)

\* the calls and returns of the notify functions of h one after the other in the
\* order of h.notify, then the final handler (or os.Exit(1) in its place)
InOrder(h) ==
    LET es == EventsOf(h)
        n == Len(handlers[h].notify)
    IN  /\ Len(es) <= 2 * n + 1
        /\ \A j \in 1..Len(es) :
               /\ es[j].th = es[1].th
               /\ IF j <= 2 * n
                  THEN /\ es[j].fn = handlers[h].notify[(j + 1) \div 2]
                       /\ es[j].ev = (IF j % 2 = 1 THEN "call" ELSE "return")
                  ELSE /\ es[j].fn = handlers[h].final
                       /\ es[j].ev \in {"final", "exit"}

\* C15: the notify functions of a handler are invoked one at a time in the order
\* they were passed to New, and the final handler is invoked only after every one
\* of them has returned.
C15_NotifyInOrderThenFinal ==
    \A h \in 1..Len(handlers) : InOrder(h)

\* a signal has made the handler call both notify functions and then its final
\* handler, which returned
C15_Witness ==
    /\ handlers # <<>>
    /\ Len(handlers[RunHandler].notify) = MaxNotify
    /\ Len(EventsOf(RunHandler)) = 2 * MaxNotify + 1
    /\ EventsOf(RunHandler)[2 * MaxNotify + 1].ev = "final"
    /\ handlers[RunHandler].once = "done"

\* C16: provided UnlockKey is only called by the goroutine that holds the lock, at
\* most one goroutine at a time holds the lock of an id, and of any ids that hash to
\* the same slot.
C16_MutualExclusion ==
    ~misused => \A slot \in 1..Len(channels) : Cardinality(HoldersOf(slot)) <= 1

\* a goroutine waits in LockKey for an id whose slot is locked by another goroutine
\* under a different id
C16_Witness ==
    /\ ~misused
    /\ \E p, q \in ProcIds :
           /\ p # q
           /\ procs[q].pc = "LockKey"
           /\ \E id \in held[p] :
                  /\ id # procs[q].id
                  /\ slotOf(channels, id) = slotOf(channels, procs[q].id)

\* a LockKeyWithContext call of p returns in this step
ReturnsFromLockKeyWithContext(p) ==
    /\ procs[p].pc = "LockKeyWithContext"
    /\ procs'[p].pc = "idle"

\* C17: LockKeyWithContext returns true only when this very call has taken the lock
\* of the id, and false only when its context is cancelled; when it returns false
\* the caller holds nothing more than before and the locks are as they were.
C17_LockKeyWithContextResult ==
    [][\A p \in ProcIds :
           ReturnsFromLockKeyWithContext(p) =>
               LET slot == slotOf(channels, procs[p].id) IN
               \/ /\ procs'[p].ret = "true"
                  /\ channels[slot] = lockCap
                  /\ channels' = [channels EXCEPT ![slot] = 0]
                  /\ held' = [held EXCEPT ![p] = @ \cup {procs[p].id}]
               \/ /\ procs'[p].ret = "false"
                  /\ procs[p].done
                  /\ channels' = channels
                  /\ held' = held]_vars

\* a LockKeyWithContext call has returned false while another goroutine holds the
\* lock of the id
C17_Witness ==
    /\ ~misused
    /\ \E p, q \in ProcIds :
           /\ p # q
           /\ procs[p].pc = "idle"
           /\ procs[p].ret = "false"
           /\ held[p] = {}
           /\ held[q] # {}
           /\ \A slot \in 1..Len(channels) : channels[slot] = 0

\* C18: UnlockKey(id) called while the lock of id is not held returns an error; it
\* does not wait, and it leaves the locks as they are.
C18_UnlockUnheldFails ==
    \A p \in ProcIds :
        /\ procs[p].pc = "UnlockKey" /\ procs[p].unheld =>
               channels[slotOf(channels, procs[p].id)] < lockCap
        /\ procs[p].pc = "idle" /\ procs[p].unheld => procs[p].ret = "error"

\* C19: used by one goroutine and created with a size of at least 1, the ring is an
\* unbounded queue: the items come out of ReadOne in the order they went into
\* WriteOne, none lost or repeated, also when the ring grows and when its contents
\* wrap around the end of the array; and ReadOne returns ok = false exactly when
\* everything written has been read.
C19_UnboundedFifo ==
    /\ Len(taken) <= Len(written)
    /\ taken = SubSeq(written, 1, Len(taken))
    /\ ringRet.op = "ReadOne" =>
           /\ ringRet.ok <=> ringRet.pending > 0
           /\ ringRet.ok => ringRet.data = written[Len(taken)]
           /\ ~ringRet.ok => ringRet.data = Nil

\* the ring has just grown while its contents wrapped around the end of the array,
\* and what is still to be read spans the old and the new part
C19_Witness ==
    /\ ringRet.op = "WriteOne"
    /\ ringRet.grew = "wrapped"
    /\ Len(taken) > 0
    /\ ring.readable = Len(written) - Len(taken)
    /\ ring.readable > 2

\* C20: the first error of a chain preempts everything after it: once a Field,
\* SetField, At or SetAt has failed, every later operation returns the same broken
\* Chainable, no later SetField or SetAt changes the document, and Data() returns
\* nil and the error of that first failure.
C20_FirstErrorPreempts ==
    firstFailure.failed =>
        /\ chain.broken
        /\ chain.err.cause = firstFailure.cause
        /\ chain.err = firstFailure.err
        /\ heap = firstFailure.heap
        /\ chainRet.op = "Data" =>
               /\ chainRet.data = NilValue
               /\ chainRet.err = firstFailure.err

\* a chain has set a field, then failed, then gone on for two operations, and
\* Data() has returned the error
C20_Witness ==
    /\ firstFailure.failed
    /\ firstFailure.after >= 2
    /\ heap # DocHeap
    /\ chainRet.op = "Data"
    /\ chainRet.err # NoError

\* C21: InsertAt(index, value) on a value that is not an array, or with index < 0 or
\* index > length, returns an error; it does not panic and it leaves the data as it
\* was.
C21_InsertAtOutOfBounds ==
    chainRet.n > 0 =>
        LET d == chain.data
            h == chainRet.before
        IN  (~IsArray(h, d) \/ chainRet.index < 0 \/ chainRet.index > Len(h[d.v].items)) =>
                /\ ~chainRet.res.panicked
                /\ chainRet.res.err # ""
                /\ chainRet.res.heap = h

\* how many pairs of consecutive reads of the file gave the same content
Agreeing(reads) == {k \in 1..(Len(reads) - 1) : reads[k] = reads[k + 1]}

\* C22: whenever ConsistentRead returns content without error, the last two reads of
\* the file gave that content, whatever the size of the file and however it changed;
\* and when no two consecutive reads agree and no read fails it returns
\* InconsistentReadError.
C22_SameContentTwice ==
    reading.pc = "done" =>
        LET n == Len(reading.reads)
        IN  /\ reading.err = "" =>
                /\ n >= 2
                /\ reading.reads[n] = reading.ret
                /\ reading.reads[n - 1] = reading.ret
            /\ (Agreeing(reading.reads) = {} /\ reading.err # "open") =>
                reading.err = "InconsistentReadError"

\* the same for a file that is at least 511 bytes long when ConsistentRead looks
\* at its size
C22_LargeFileSameContentTwice ==
    (reading.pc = "done" /\ reading.size >= smallFile) =>
        LET n == Len(reading.reads)
        IN  /\ reading.err = "" =>
                /\ n >= 2
                /\ reading.reads[n] = reading.ret
                /\ reading.reads[n - 1] = reading.ret
            /\ (Agreeing(reading.reads) = {} /\ reading.err # "open") =>
                reading.err = "InconsistentReadError"

\* step k of trace n comes right after a nested trace that was completed (logged)
\* before the step was taken
AfterCompletedNested(n, k) ==
    /\ k >= 2
    /\ IsStep(n, k)
    /\ traces[n].stepsTraces[k - 1].kind = "trace"
    /\ LET c == traces[n].stepsTraces[k - 1].trace
       IN  /\ fin[c].count > 0
           /\ fin[c].first <= traces[n].stepsTraces[k].stepTime

\* the time the nested trace before step k of trace n was completed
NestedEndTime(n, k) == fin[traces[n].stepsTraces[k - 1].trace].first

\* C23: a step that follows a nested trace in the same parent is written with the
\* time elapsed since the nested trace was completed, not since the item before the
\* nested trace or the parent's start.
C23_StepAfterNestedFromEndTime ==
    \A i \in 1..Len(out) : \A n \in TraceIds : \A k \in 1..MaxItems :
        (InLine(out[i], n) /\ AfterCompletedNested(n, k))
        => \A j \in 1..Len(out[i].buffer) :
               LET e == out[i].buffer[j]
               IN  (e.kind = "step" /\ e.trace = n /\ e.msg = k)
                   => e.dur = traces[n].stepsTraces[k].stepTime - NestedEndTime(n, k)

\* h = Chain(parent, notify...) was triggered by a signal and h.signal has run to
\* its end: the function h.signal passed to once.Do has called h.final, which is
\* parent.signal, and the goroutine started by Run has returned
ChainedSignalDone ==
    /\ Len(handlers) = 2
    /\ threads["sig"].pc = "returned"
    /\ \E j \in 1..Len(events) : events[j].h = 2 /\ events[j].ev = "final"

\* the final handler of the parent has been invoked (os.Exit(1) if it is nil)
ParentFinalInvoked ==
    \E j \in 1..Len(events) : events[j].h = 1 /\ events[j].ev \in {"final", "exit"}

\* C24: when the handler made by Chain(parent, notify...) is triggered by a signal,
\* its own notify functions run, then the notify functions of the parent run exactly
\* once, and then the final handler of the parent is invoked.
C24_ChainInvokesParentFinal ==
    ChainedSignalDone =>
        /\ \A k \in 1..Len(handlers[1].notify) : Calls(1, k) = 1
        /\ \A k \in 1..Len(handlers[2].notify) : Calls(2, k) = 1
        /\ ParentFinalInvoked

\* C25: a ReadOne call that returns ok = false has consumed nothing, on an empty
\* buffer and when two ReadOne calls interleave: it has not taken one from the
\* number of readable items, and once no call is in progress every item written is
\* either still readable or has been returned by some ReadOne.
C25_FailedReadConsumesNothing ==
    /\ \A p \in Readers :
           (ringRet[p].pc = "idle" /\ ringRet[p].calls > 0 /\ ~ringRet[p].ok)
           => ~ringRet[p].consumed
    /\ AllIdle => ring.readable = Len(written) - Len(taken)

\* the part of C25 about the empty buffer: a call that found nothing to read
\* returns false and has changed nothing
C25_EmptyReadConsumesNothing ==
    \A p \in Readers :
        (ringRet[p].pc = "idle" /\ ringRet[p].calls > 0 /\ ringRet[p].oldReadable = 0)
        => ~ringRet[p].ok /\ ~ringRet[p].consumed

\* C26: used by one goroutine, a ring created with size s >= 1 keeps
\* 0 <= readable <= n and 0 <= beg < n, readable is the number of writes minus the
\* number of successful reads, and n is s * 2^k where k is the number of WriteOne
\* calls that found the ring full, so n changes in no other way; 10 writes into a
\* ring of size 1 give n = 16.
C26_RingInvariants ==
    /\ 0 <= ring.readable
    /\ ring.readable <= ring.n
    /\ 0 <= ring.beg
    /\ ring.beg < ring.n
    /\ Len(ring.data) = ring.n
    /\ ring.readable = Len(written) - Len(taken)
    /\ ring.n = ringRet.initialSize * 2 ^ ringRet.full
    /\ (ringRet.initialSize = 1 /\ Len(written) = 10 /\ taken = <<>>) => ring.n = 16

\* ten items have been written into a ring of size 1 and none read: four of the
\* WriteOne calls found the ring full, and it holds 16
C26_Witness ==
    /\ ringRet.initialSize = 1
    /\ Len(written) = 10
    /\ taken = <<>>
    /\ ringRet.full = 4
    /\ ring.n = 16
    /\ ring.readable = 10

\* goroutine p is waiting in LockKey for the lock of the slot
WaitingOn(p, slot) ==
    /\ procs[p].pc = "LockKey"
    /\ slotOf(channels, procs[p].id) = slot

\* goroutine q holds the lock of the slot and is in the UnlockKey call that
\* releases it
Unlocking(q, slot) ==
    /\ procs[q].pc = "UnlockKey"
    /\ procs[q].id \in held[q]
    /\ slotOf(channels, procs[q].id) = slot

\* a call that locks has returned to r, which holds the lock of the slot
LockedBy(r, slot) ==
    /\ procs[r].pc = "idle"
    /\ procs[r].ret \in {"locked", "true"}
    /\ \E id \in held[r] : slotOf(channels, id) = slot

\* a goroutine other than p is waiting for the lock of the slot
Rival(p, slot) ==
    \E r \in ProcIds \ {p} :
        /\ procs[r].pc \in {"LockKey", "LockKeyWithContext"}
        /\ slotOf(channels, procs[r].id) = slot

\* C27: under fair scheduling, when a LockKey call waits for a slot and the holder
\* calls UnlockKey, a call waiting for that slot eventually returns with the lock,
\* and it is that waiter unless another call has joined it in waiting: the lock does
\* not stay unavailable after an unlock.
C27_WaiterEventuallyLocks ==
    \A p \in ProcIds : \A q \in ProcIds \ {p} : \A slot \in 1..MaxLocks :
        /\ (WaitingOn(p, slot) /\ Unlocking(q, slot))
               ~> (\E r \in ProcIds : LockedBy(r, slot))
        /\ (WaitingOn(p, slot) /\ Unlocking(q, slot))
               ~> (LockedBy(p, slot) \/ Rival(p, slot))

\* a LockKey call waits for a slot whose holder is in UnlockKey, for another id that
\* hashes to the same slot, and no goroutine has unlocked what it did not hold
C27_Witness ==
    /\ ~misused
    /\ \E p \in ProcIds : \E q \in ProcIds \ {p} :
        /\ WaitingOn(p, slotOf(channels, procs[p].id))
        /\ Unlocking(q, slotOf(channels, procs[p].id))
        /\ procs[q].id # procs[p].id
        /\ channels[slotOf(channels, procs[p].id)] = 0

\* C28: Unmount(target) removes exactly the mount points whose Path is the resolved
\* target, appends one unmount action to Log, and leaves every other mount point as
\* it was, in Device, Path, Type and Opts, and in its place relative to the others.
C28_UnmountLeavesOthers ==
    mountRet.op = "Unmount" =>
        /\ mountPoints = SelectSeq(mountRet.before,
                                   LAMBDA mp : mp.Path # EvalSymlinks(mountRet.target))
        /\ mountLog = Append(mountRet.logBefore,
                             FakeAction(FakeActionUnmount, EvalSymlinks(mountRet.target),
                                        "", ""))

\* the same without Opts: the mount points left are those on other paths, in the
\* order they had, with their Device, Path and Type
C28_UnmountKeepsDevicePathType ==
    mountRet.op = "Unmount" =>
        LET left == SelectSeq(mountRet.before,
                              LAMBDA mp : mp.Path # EvalSymlinks(mountRet.target))
        IN  /\ Len(mountPoints) = Len(left)
            /\ \A j \in 1..Len(left) :
                   /\ mountPoints[j].Device = left[j].Device
                   /\ mountPoints[j].Path = left[j].Path
                   /\ mountPoints[j].Type = left[j].Type

\* the value calculateStepThreshold divides by
StepDivisor(ts, t) ==
    LET r == calcLoop(ts, t, 1, ts[t].threshold, Len(ts[t].stepsTraces) + 1)
    IN  IF r.traceThreshold < GoDiv(ts[t].threshold, 4)
        THEN Len(ts[t].stepsTraces) + 1
        ELSE r.lenTrace

\* the threshold of the trace and those of its nested traces are not negative
NonNegativeThresholds(ts, t) ==
    /\ ts[t].threshold >= 0
    /\ \A n \in ThresholdChildren(ts, t) : ts[n].threshold >= 0

\* C29: for a trace with threshold T >= 0, c children and non-negative thresholds on
\* its nested traces, calculateStepThreshold divides by a value from 1 to c + 1 and
\* returns s with (T/4)/(c + 1) <= s <= T.
C29_StepThresholdBounds ==
    (lastCall.op = "calculateStepThreshold" /\ NonNegativeThresholds(traces, lastCall.t))
    => LET T == lastCall.threshold
           c == Len(traces[lastCall.t].stepsTraces)
       IN  /\ StepDivisor(traces, lastCall.t) >= 1
           /\ StepDivisor(traces, lastCall.t) <= c + 1
           /\ GoDiv(GoDiv(T, 4), c + 1) <= lastCall.ret
           /\ lastCall.ret <= T

\* the same for thresholds far from the ends of the range of time.Duration
C29_SmallStepThresholdBounds ==
    (/\ lastCall.op = "calculateStepThreshold"
     /\ NonNegativeThresholds(traces, lastCall.t)
     /\ SumThresholds(traces, ThresholdChildren(traces, lastCall.t)) <= maxDuration)
    => LET T == lastCall.threshold
           c == Len(traces[lastCall.t].stepsTraces)
       IN  /\ StepDivisor(traces, lastCall.t) >= 1
           /\ StepDivisor(traces, lastCall.t) <= c + 1
           /\ GoDiv(GoDiv(T, 4), c + 1) <= lastCall.ret
           /\ lastCall.ret <= T

====
